---- MODULE Spec2Model ----
(***************************************************************************)
(* Model of the Curio FAQ module (src/src/faq/index.ts) and of the helpers *)
(* it imports (src/unnamed/part_001): the item state machine with          *)
(* accordion exclusivity, the search orchestrator with the highlight       *)
(* engine and the match navigator, the debounced input binding, the        *)
(* expand/collapse transitions and the init/destroy life cycle.            *)
(*                                                                         *)
(* Strings are sequences of one-character strings.  The page the module    *)
(* is initialised on is chosen by the initial predicate and never changes; *)
(* every element that the module reads or writes is a field of the state.  *)
(***************************************************************************)
EXTENDS Integers, Sequences, FiniteSets, TLC

\* ------------------------------------------------------------------------
\* Strings (helpers.ts: normalizeText; String.prototype.includes / indexOf)
\* ------------------------------------------------------------------------

ToLowerChar(c) ==
  CASE c = "A" -> "a"
    [] c = "B" -> "b"
    [] OTHER -> c

toLowerCase(s) == [k \in 1..Len(s) |-> ToLowerChar(s[k])]

IsSpace(c) == c = " "

RECURSIVE trimStart(_)
trimStart(s) ==
  IF s # <<>> /\ IsSpace(Head(s)) THEN trimStart(Tail(s)) ELSE s

RECURSIVE trimEnd(_)
trimEnd(s) ==
  IF s # <<>> /\ IsSpace(s[Len(s)]) THEN trimEnd(SubSeq(s, 1, Len(s) - 1)) ELSE s

trim(s) == trimEnd(trimStart(s))

\* helpers.ts: text.toLowerCase().trim()
normalizeText(text) == trim(toLowerCase(text))

\* s.slice(from, to) with 0-based, end-exclusive positions, clamped as JS does
slice(s, from, to) ==
  LET f == IF from > Len(s) THEN Len(s) ELSE from
      t == IF to > Len(s) THEN Len(s) ELSE to
  IN  IF t <= f THEN <<>> ELSE SubSeq(s, f + 1, t)

\* the positions (0-based) at which q occurs in s
OccursAt(s, q, idx) ==
  /\ idx >= 0
  /\ idx + Len(q) <= Len(s)
  /\ \A k \in 1..Len(q) : s[idx + k] = q[k]

\* s.indexOf(q, pos): least position >= pos where q occurs, else -1
indexOf(s, q, pos) ==
  LET hits == {idx \in pos..Len(s) : OccursAt(s, q, idx)}
  IN  IF hits = {} THEN -1 ELSE CHOOSE idx \in hits : \A j \in hits : idx <= j

includes(s, q) == indexOf(s, q, 0) # -1

RECURSIVE Concat(_)
Concat(ss) == IF ss = <<>> THEN <<>> ELSE Head(ss) \o Concat(Tail(ss))

\* the value of a one-element set: binds a value once it is computed
Pick(S) == CHOOSE x \in S : TRUE

\* ------------------------------------------------------------------------
\* Configuration (config.ts: readAttr, readIntAttr, readBoolAttr,
\* resolveConfig, resolveGroupConfig)
\* ------------------------------------------------------------------------

\* an attribute of an element: absent, or present with a value
Absent == [present |-> FALSE, value |-> <<>>]
Attr(v) == [present |-> TRUE, value |-> v]

NoAttrs ==
  [activeClass |-> Absent, highlightClass |-> Absent,
   currentHighlightClass |-> Absent, floatingSearch |-> Absent,
   collapseDuration |-> Absent, searchDebounce |-> Absent,
   accordion |-> Absent, defaultOpen |-> Absent]

\* a null element
NoElement == [kind |-> "null", id |-> 0, attrs |-> NoAttrs, children |-> <<>>]

\* a value, or null
Some(v) == [some |-> TRUE, value |-> v]
NullString == [some |-> FALSE, value |-> <<>>]
NullNumber == [some |-> FALSE, value |-> 0]
NullBoolean == [some |-> FALSE, value |-> FALSE]

\* opt ?? dflt
OrElse(opt, dflt) == IF opt.some THEN opt.value ELSE dflt

\* readAttr without the trim
readAttrUntrimmed(el, attr) ==
  IF el.kind = "null" THEN NullString
  ELSE IF el.attrs[attr].present /\ el.attrs[attr].value # <<>>
       THEN Some(el.attrs[attr].value)
       ELSE NullString

\* readAttr: null for a null element, a missing attribute (getAttribute
\* gives null), an empty or a whitespace-only value; else the trimmed value
readAttr(el, attr) ==
  IF el.kind = "null" THEN NullString
  ELSE IF /\ el.attrs[attr].present
          /\ el.attrs[attr].value # <<>>
          /\ trim(el.attrs[attr].value) # <<>>
       THEN Some(trim(el.attrs[attr].value))
       ELSE NullString

DigitChars == <<"0", "1", "2", "3", "4", "5", "6", "7", "8", "9">>

IsDigit(c) == \E k \in 1..10 : DigitChars[k] = c

DigitValue(c) == (CHOOSE k \in 1..10 : DigitChars[k] = c) - 1

\* the value of the longest run of digits a string starts with, read from
\* the left with the value of the digits read so far; count tells how many
RECURSIVE ReadDigits(_, _, _)
ReadDigits(s, value, count) ==
  IF s # <<>> /\ IsDigit(Head(s))
  THEN ReadDigits(Tail(s), 10 * value + DigitValue(Head(s)), count + 1)
  ELSE [value |-> value, count |-> count]

\* parseInt(val, 10): leading white space is skipped, then an optional sign
\* and the longest run of digits are read; NaN when there is no digit
parseInt(val) ==
  LET s == trimStart(val)
      signed == s # <<>> /\ Head(s) \in {"-", "+"}
      digits == ReadDigits(IF signed THEN Tail(s) ELSE s, 0, 0)
  IN  IF digits.count = 0 THEN [nan |-> TRUE, value |-> 0]
      ELSE [nan |-> FALSE,
            value |-> IF signed /\ Head(s) = "-" THEN 0 - digits.value ELSE digits.value]

readIntAttr(el, attr) ==
  LET val == readAttr(el, attr)
  IN  IF ~val.some THEN NullNumber
      ELSE IF parseInt(val.value).nan THEN NullNumber
           ELSE Some(parseInt(val.value).value)

readBoolAttr(el, attr) ==
  LET val == readAttr(el, attr)
  IN  IF ~val.some THEN NullBoolean
      ELSE Some(val.value = <<"t", "r", "u", "e">>)

\* DEFAULTS
DEFAULTS ==
  [classes |->
     [activeClass |-> <<"i", "s", "-", "a", "c", "t", "i", "v", "e">>,
      highlightClass |-> <<"f", "a", "q", "-", "s", "e", "a", "r", "c", "h", "-",
                           "h", "i", "g", "h", "l", "i", "g", "h", "t">>,
      currentHighlightClass |-> <<"f", "a", "q", "-", "s", "e", "a", "r", "c", "h",
                                  "-", "c", "u", "r", "r", "e", "n", "t">>],
   timing |-> [collapseDuration |-> 250, iconTransitionDuration |-> 150,
               searchDebounce |-> 300],
   colors |-> [highlightBackground |-> "#eef",
               currentHighlightBackground |-> "#5c6ac4"],
   floatingSearch |-> FALSE]

\* GROUP_DEFAULTS
GROUP_DEFAULTS ==
  [accordion |-> FALSE, defaultOpen |-> NullNumber,
   collapseDuration |-> DEFAULTS.timing.collapseDuration]

\* resolveConfig(), searchEl being the search element or null
resolveConfig(searchEl) ==
  [classes |->
     [activeClass |->
        OrElse(readAttr(searchEl, "activeClass"), DEFAULTS.classes.activeClass),
      highlightClass |->
        OrElse(readAttr(searchEl, "highlightClass"), DEFAULTS.classes.highlightClass),
      currentHighlightClass |->
        OrElse(readAttr(searchEl, "currentHighlightClass"),
               DEFAULTS.classes.currentHighlightClass)],
   timing |->
     [collapseDuration |-> DEFAULTS.timing.collapseDuration,
      iconTransitionDuration |-> DEFAULTS.timing.iconTransitionDuration,
      searchDebounce |->
        OrElse(readIntAttr(searchEl, "searchDebounce"), DEFAULTS.timing.searchDebounce)],
   colors |-> DEFAULTS.colors,
   floatingSearch |->
     OrElse(readBoolAttr(searchEl, "floatingSearch"), DEFAULTS.floatingSearch)]

\* resolveGroupConfig(groupEl); defaultOpen is a number or null
resolveGroupConfig(groupEl) ==
  [accordion |-> OrElse(readBoolAttr(groupEl, "accordion"), GROUP_DEFAULTS.accordion),
   defaultOpen |->
     IF readIntAttr(groupEl, "defaultOpen").some
     THEN readIntAttr(groupEl, "defaultOpen")
     ELSE GROUP_DEFAULTS.defaultOpen,
   collapseDuration |->
     OrElse(readIntAttr(groupEl, "collapseDuration"), GROUP_DEFAULTS.collapseDuration)]

\* ------------------------------------------------------------------------
\* The document: items, their sub-elements and their text
\* ------------------------------------------------------------------------
\* An element that holds text is a sequence of parents (itself or child
\* elements such as <p>), each a sequence of child nodes; a node is a text
\* node or a <mark> element with one text child.

TextNode(s) == [mark |-> FALSE, text |-> s, cur |-> FALSE]
MarkNode(s) == [mark |-> TRUE, text |-> s, cur |-> FALSE]

\* the item elements
Items == 1..5

\* The document as parseFaqGroups sees it: a sequence of elements in document
\* order, each an item element or a group element with its attributes and
\* its child elements.
Item(i) == [kind |-> "item", id |-> i, attrs |-> NoAttrs, children |-> <<>>]

Group(attrs, children) ==
  [kind |-> "group", id |-> 0, attrs |-> attrs, children |-> children]

\* the search element with its attributes
SearchEl(attrs) == [kind |-> "search", id |-> 0, attrs |-> attrs, children |-> <<>>]

\* querySelectorAll('[cur-faq-element="item"]') below a list of elements
RECURSIVE ItemsIn(_)
ItemsIn(nodes) ==
  IF nodes = <<>> THEN <<>>
  ELSE (IF Head(nodes).kind = "item" THEN <<Head(nodes).id>>
        ELSE ItemsIn(Head(nodes).children))
       \o ItemsIn(Tail(nodes))

\* querySelectorAll('[cur-faq-element="group"]') below a list of elements
RECURSIVE GroupElsIn(_)
GroupElsIn(nodes) ==
  IF nodes = <<>> THEN <<>>
  ELSE (IF Head(nodes).kind = "group"
        THEN <<Head(nodes)>> \o GroupElsIn(Head(nodes).children)
        ELSE <<>>)
       \o GroupElsIn(Tail(nodes))

\* parseFaqGroups(): the explicit groups in document order, each with the
\* items below its element and its own configuration, then the implicit
\* group of the orphans (groupEl document.body, resolveGroupConfig(null))
\* when there are any
parseFaqGroups(doc) ==
  LET GroupOf(groupEl) ==
        [explicit |-> TRUE,
         items |-> ItemsIn(groupEl.children),
         config |-> resolveGroupConfig(groupEl)]
      GroupedItems(groups) ==
        UNION { {groups[g].items[k] : k \in 1..Len(groups[g].items)}
                : g \in 1..Len(groups) }
      WithOrphans(groups, orphans) ==
        IF Len(orphans) > 0
        THEN Append(groups, [explicit |-> FALSE, items |-> orphans,
                             config |-> resolveGroupConfig(NoElement)])
        ELSE groups
  IN  Pick({ WithOrphans(
               groups,
               Pick({ SelectSeq(ItemsIn(doc), LAMBDA i : i \notin groupedItems)
                      : groupedItems \in {GroupedItems(groups)} }))
             : groups \in { <<>> \o [g \in 1..Len(groupEls) |-> GroupOf(groupEls[g])]
                            : groupEls \in {GroupElsIn(doc)} } })

\* The page the module runs on: its document and its search element, the
\* FaqConfig resolved from the search element, the groups parsed from the
\* document (group.items, whether groupEl is a group element, group.config;
\* accordion and defaultOpen repeat group.config, defaultOpen -1 standing
\* for null), the items in document order, which sub-elements parseItem
\* finds in each item (FaqItemElements), and whether the page listens on the
\* document for the module's custom events.  It never changes once the
\* document is parsed.
VARIABLE page

\* the groups of the instance
Groups == 1..Len(page.groupItems)

\* group.items, in document order
GroupItems == page.groupItems

HasTrigger == page.hasTrigger
HasContent == page.hasContent
HasTitle   == page.hasTitle
accordion   == page.accordion
defaultOpen == page.defaultOpen
floatingSearch == page.floatingSearch
listener == page.listener

\* document.querySelector('[cur-faq-element="group"]') finds an element
hasGroupEl == \E g \in 1..Len(page.explicit) : page.explicit[g]

\* item 2 has no icon elements
HasIconOpen  == [i \in Items |-> i # 2]
HasIconClose == [i \in Items |-> i # 2]

\* the page of a document and a search element before initFaq has resolved
\* the configuration and parsed the groups
Unparsed(doc, searchEl) ==
  [doc |-> doc, search |-> searchEl,
   config |-> DEFAULTS, floatingSearch |-> FALSE,
   groupItems |-> <<>>, explicit |-> <<>>, groupConfig |-> <<>>,
   accordion |-> <<>>, defaultOpen |-> <<>>, order |-> ItemsIn(doc),
   hasTrigger |-> [i \in Items |-> i # 5],
   hasContent |-> [i \in Items |-> i # 4],
   hasTitle |-> [i \in Items |-> TRUE],
   listener |-> FALSE]

\* the page once resolveConfig and parseFaqGroups have run (initFaq lines
\* 733-734)
Parsed(pg) ==
  Pick({ [pg EXCEPT
            !.config = config,
            !.floatingSearch = config.floatingSearch,
            !.groupItems = <<>> \o [g \in 1..Len(groups) |-> groups[g].items],
            !.explicit = <<>> \o [g \in 1..Len(groups) |-> groups[g].explicit],
            !.groupConfig = <<>> \o [g \in 1..Len(groups) |-> groups[g].config],
            !.accordion = <<>> \o [g \in 1..Len(groups) |-> groups[g].config.accordion],
            !.defaultOpen =
              <<>> \o [g \in 1..Len(groups) |->
                         IF groups[g].config.defaultOpen.some
                         THEN groups[g].config.defaultOpen.value
                         ELSE -1]]
         : groups \in {parseFaqGroups(pg.doc)}, config \in {resolveConfig(pg.search)} })

\* the text of a cur-faq-accordion attribute for a setting
BoolAttr(b) == IF b THEN Attr(<<"t", "r", "u", "e">>) ELSE Absent

\* the text of a cur-faq-default-open attribute for an index from -9 to 9;
\* no attribute for -1
IntAttr(k) ==
  IF k = -1 THEN Absent
  ELSE IF k < 0 THEN Attr(<<"-", DigitChars[1 - k]>>)
  ELSE Attr(<<DigitChars[k + 1]>>)

\* a search element that asks for the floating panel
FloatingSearchEl == SearchEl([NoAttrs EXCEPT !.floatingSearch = BoolAttr(TRUE)])

\* two groups with the given accordion and default-open settings
TwoGroups(a1, a2, k1, k2) ==
  << Group([NoAttrs EXCEPT !.accordion = BoolAttr(a1), !.defaultOpen = IntAttr(k1)],
           <<Item(1), Item(2), Item(4)>>),
     Group([NoAttrs EXCEPT !.accordion = BoolAttr(a2), !.defaultOpen = IntAttr(k2)],
           <<Item(3), Item(5)>>) >>

\* two groups, the first an accordion and the second with its first item open
\* by default; item 4 has no content element and item 5 no trigger
FullPage == Parsed(Unparsed(TwoGroups(TRUE, FALSE, -1, 0), FloatingSearchEl))

\* the same page with an empty element in the place of item 3, and no
\* default-open item
PairPage ==
  [Parsed(Unparsed(TwoGroups(TRUE, FALSE, -1, -1), FloatingSearchEl))
     EXCEPT !.hasTrigger[3] = FALSE, !.hasContent[3] = FALSE,
            !.hasTitle[3] = FALSE]

\* the same page with empty elements in the place of items 2 and 3, and no
\* default-open item
SmallPage ==
  [PairPage EXCEPT !.hasTrigger[2] = FALSE, !.hasContent[2] = FALSE,
                   !.hasTitle[2] = FALSE]

\* the page with two complete items in the accordion group, with a listener
\* for cur-faq:open, cur-faq:close and cur-faq:search on the document
ListeningPage == [PairPage EXCEPT !.listener = TRUE]

\* the same items and the same listener on a page without group elements
UngroupedPage ==
  [Parsed(Unparsed(<<Item(1), Item(2), Item(4), Item(3), Item(5)>>, FloatingSearchEl))
     EXCEPT !.hasTrigger[3] = FALSE, !.hasContent[3] = FALSE,
            !.hasTitle[3] = FALSE, !.listener = TRUE]

\* the largest cur-faq-default-open index tried
MaxDefaultOpen == 3

\* values of cur-faq-default-open: negative, none (-1), in range, out of range
DefaultOpenValues == -2..MaxDefaultOpen

\* the full page under every accordion and default-open setting of its groups
InitPages ==
  { Parsed(Unparsed(TwoGroups(a1, a2, k1, k2), FloatingSearchEl)) :
      a1 \in BOOLEAN, a2 \in BOOLEAN,
      k1 \in DefaultOpenValues, k2 \in DefaultOpenValues }

\* the number of item elements in the documents handed to parseFaqGroups
MaxItems == 3

\* where an item element stands: below no group element, in the outer group,
\* in the group nested in the outer group, or in a group of its own
Places == {"top", "outer", "inner", "other"}

\* the item elements that stand at a place, in document order
ItemsAt(place, where) ==
  LET ids == SelectSeq([i \in 1..MaxItems |-> i], LAMBDA i : place[i] = where)
  IN  [k \in 1..Len(ids) |-> Item(ids[k])]

\* the document with a group nested in another group, a third group and
\* ungrouped items, for a placement of the items
DocOf(place) ==
  << Group(NoAttrs, ItemsAt(place, "outer")
                   \o <<Group(NoAttrs, ItemsAt(place, "inner"))>>),
     Group(NoAttrs, ItemsAt(place, "other")) >>
  \o ItemsAt(place, "top")

\* every arrangement of the item elements in that document
Docs == { DocOf(place) : place \in [1..MaxItems -> Places] }

\* the longest value of a numeric configuration attribute tried
MaxAttrLen == 3

\* the numeric attributes: absent, or any text of digits, signs, blanks and
\* letters
IntAttrs ==
  {Absent, Attr(<<>>)}
  \cup { Attr(t) : t \in UNION { [1..n -> {"1", "2", "-", " ", "x"}] : n \in 1..MaxAttrLen } }

\* the boolean attributes: absent, blank, "true" with and without blanks
\* around it, and other words
BoolAttrs ==
  {Absent, Attr(<<>>), Attr(<<" ">>),
   Attr(<<"t", "r", "u", "e">>), Attr(<<" ", "t", "r", "u", "e">>),
   Attr(<<"t", "r", "u", "e", " ">>), Attr(<<"T", "R", "U", "E">>),
   Attr(<<"t", "r", "u">>), Attr(<<"f", "a", "l", "s", "e">>), Attr(<<"1">>)}

\* the class name attributes: absent, blank, a name with and without blanks
\* around it
ClassAttrs == {Absent, Attr(<<>>), Attr(<<" ">>), Attr(<<"x">>), Attr(<<" ", "x", " ">>)}

\* two group elements, one with the attributes drawn and one with attributes
\* of its own, in either order
ConfigDoc(n, b, swap) ==
  LET drawn == Group([NoAttrs EXCEPT !.accordion = b, !.defaultOpen = n,
                                     !.collapseDuration = n],
                     <<Item(1), Item(2), Item(4)>>)
      fixed == Group([NoAttrs EXCEPT !.accordion = BoolAttr(TRUE),
                                     !.defaultOpen = IntAttr(1)],
                     <<Item(3), Item(5)>>)
  IN  IF swap THEN <<fixed, drawn>> ELSE <<drawn, fixed>>

\* the search element with the attributes drawn
ConfigSearchEl(n, b, c) ==
  SearchEl([NoAttrs EXCEPT !.searchDebounce = n, !.floatingSearch = b,
                           !.activeClass = c, !.highlightClass = c])

\* the text the page author wrote
PageTitle ==
  [i \in Items |->
     CASE i = 1 -> << <<TextNode(<<"A", "b">>)>> >>
       [] i = 2 -> << <<TextNode(<<"a">>)>> >>
       [] i = 3 -> << <<TextNode(<<"B">>)>> >>
       [] i = 4 -> << <<TextNode(<<"a">>)>> >>
       [] OTHER -> << <<TextNode(<<"x">>)>> >>]

PageContent ==
  [i \in Items |->
     CASE i = 1 -> << <<TextNode(<<" ", "b">>)>> >>
       [] i = 2 -> << <<TextNode(<<"x">>)>>, <<TextNode(<<"y">>)>> >>
       [] i = 3 -> << <<TextNode(<<"x">>)>> >>
       [] i = 4 -> << >>
       [] OTHER -> << <<TextNode(<<"b">>)>> >>]

\* Node.textContent of an element
ParentText(nodes) == Concat([k \in 1..Len(nodes) |-> nodes[k].text])
textContent(el) == Concat([p \in 1..Len(el) |-> ParentText(el[p])])

\* ------------------------------------------------------------------------
\* Highlight engine (index.ts: clearHighlights, highlightText)
\* ------------------------------------------------------------------------

\* the loop of highlightText over one accepted text node: the fragment that
\* replaces it; `lower` is normalizeText(original), positions are taken in
\* `lower` and the slices are cut from `original`
RECURSIVE Fragment(_, _, _, _)
Fragment(original, lower, normalised, pos) ==
  LET idx == indexOf(lower, normalised, pos)
  IN  IF idx = -1
      THEN <<TextNode(slice(original, pos, Len(original)))>>
      ELSE (IF idx > pos THEN <<TextNode(slice(original, pos, idx))>> ELSE <<>>)
           \o <<MarkNode(slice(original, idx, idx + Len(normalised)))>>
           \o Fragment(original, lower, normalised, idx + Len(normalised))

\* acceptNode of the TreeWalker
acceptNode(node, normalised) == includes(normalizeText(node.text), normalised)

\* one parent's child list after every accepted text node was replaced
\* (the roots handed to highlightText hold no <mark>: performSearch clears first)
HighlightParent(nodes, normalised) ==
  Concat([k \in 1..Len(nodes) |->
            IF ~nodes[k].mark /\ acceptNode(nodes[k], normalised)
            THEN Fragment(nodes[k].text, normalizeText(nodes[k].text), normalised, 0)
            ELSE <<nodes[k]>>])

highlightText(root, query) ==
  IF query = <<>> THEN root
  ELSE [p \in 1..Len(root) |-> HighlightParent(root[p], normalizeText(query))]

\* Node.normalize(): adjacent text nodes are merged, empty text nodes removed
RECURSIVE normalize(_)
normalize(nodes) ==
  IF nodes = <<>> THEN <<>>
  ELSE LET n == Head(nodes)
           rest == normalize(Tail(nodes))
       IN  IF n.mark THEN <<n>> \o rest
           ELSE IF n.text = <<>> THEN rest
           ELSE IF rest # <<>> /\ ~Head(rest).mark
                THEN <<TextNode(n.text \o Head(rest).text)>> \o Tail(rest)
                ELSE <<n>> \o rest

HasMark(nodes) == \E k \in 1..Len(nodes) : nodes[k].mark

\* ClearParent without parent.normalize()
ClearParentUnmerged(nodes) ==
  [k \in 1..Len(nodes) |-> TextNode(nodes[k].text)]

\* every <mark> of a parent replaced by a text node, then parent.normalize();
\* a parent without <mark> is not touched
ClearParent(nodes) ==
  IF HasMark(nodes)
  THEN normalize([k \in 1..Len(nodes) |-> TextNode(nodes[k].text)])
  ELSE nodes

clearHighlights(root) == [p \in 1..Len(root) |-> ClearParent(root[p])]

\* positions of the <mark> elements of an element, in document order
RECURSIVE MarksOfParent(_, _, _, _)
MarksOfParent(nodes, i, part, p) ==
  IF nodes = <<>> THEN <<>>
  ELSE MarksOfParent(SubSeq(nodes, 1, Len(nodes) - 1), i, part, p)
       \o (IF nodes[Len(nodes)].mark
           THEN << [item |-> i, part |-> part, parent |-> p, node |-> Len(nodes)] >>
           ELSE <<>>)

MarksOfElement(el, i, part) ==
  Concat([p \in 1..Len(el) |-> MarksOfParent(el[p], i, part, p)])

\* ------------------------------------------------------------------------
\* Groups
\* ------------------------------------------------------------------------

\* allItems = groups.flatMap(g => g.items)
allItems == Concat(GroupItems)

\* findGroup(item): the first group whose items include the item (0: undefined)
findGroup(i) ==
  LET gs == {g \in Groups : \E k \in 1..Len(GroupItems[g]) : GroupItems[g][k] = i}
  IN  IF gs = {} THEN 0 ELSE CHOOSE g \in gs : \A h \in gs : g <= h

Inputs == {"main", "floating"}

\* ------------------------------------------------------------------------
\* State
\* ------------------------------------------------------------------------

VARIABLES
  initialized,         \* window.__curFaqInitialized
  instance,            \* window.__curFaq is defined
  bound,               \* the click/keydown/input listeners are attached
  styleEl,             \* the injected <style id="cur-faq-styles"> is in the document
  panel,               \* the floating panel is in the document
  panelDisplay,        \* floatingPanel.style.display
  counterText,         \* counter.textContent as <<current, total>>
  emptyDisplay,        \* emptyStateEl.style.display
  inputValue,          \* input.value of the inline and of the floating input
  timer,               \* debounce: a timeout is pending for the input
  timeouts,            \* window.setTimeout: delays left of the input's pending timeouts
  dataOpen,            \* item attribute data-faq-open: "absent", "true", "false"
  ariaExpanded,        \* trigger attribute aria-expanded
  ariaControls,        \* trigger carries aria-controls
  role,                \* setupAria gave the trigger role and tabindex, the content an id
  activeClass,         \* item carries config.classes.activeClass
  iconOpen,            \* class of the icon-open element: "none", "visible", "hidden"
  iconClose,           \* class of the icon-close element
  dataOpenedBySearch,  \* item carries data-opened-by-search="true"
  hidden,              \* content carries the hidden attribute
  height,              \* content.style.height: "", "0px", "px", "auto"
  title,               \* child nodes of the title element
  content,             \* child nodes of the content element
  animationTimestamps, \* WeakMap content -> stamp: "none", "now", "past"
  onEnd,               \* kinds of the onEnd listeners with the current stamp
  trans,               \* height transition running on the content
  box,                 \* the content's rendered box has a height > 0
  marks,               \* searchState.marks
  currentIndex,        \* searchState.currentIndex
  searchOpenedItems,   \* searchState.searchOpenedItems
  events               \* the custom events the page's listener received in the last step

vars == <<page, initialized, instance, bound, styleEl, panel, panelDisplay,
          counterText, emptyDisplay, inputValue, timer, timeouts, dataOpen, ariaExpanded,
          ariaControls, role, activeClass, iconOpen, iconClose, dataOpenedBySearch,
          hidden, height, title, content, animationTimestamps, onEnd, trans,
          box, marks, currentIndex, searchOpenedItems, events>>

\* the current state as one record, with nothing received yet by the page's
\* listener; the operators below map such a record to the record after the
\* modelled function has run
Cur ==
  [initialized |-> initialized, instance |-> instance,
   bound |-> bound, styleEl |-> styleEl, panel |-> panel,
   panelDisplay |-> panelDisplay, counterText |-> counterText,
   emptyDisplay |-> emptyDisplay, inputValue |-> inputValue, timer |-> timer,
   timeouts |-> timeouts,
   dataOpen |-> dataOpen, ariaExpanded |-> ariaExpanded,
   ariaControls |-> ariaControls, role |-> role, activeClass |-> activeClass,
   iconOpen |-> iconOpen, iconClose |-> iconClose,
   dataOpenedBySearch |-> dataOpenedBySearch, hidden |-> hidden,
   height |-> height, title |-> title, content |-> content,
   animationTimestamps |-> animationTimestamps, onEnd |-> onEnd,
   trans |-> trans, box |-> box, marks |-> marks,
   currentIndex |-> currentIndex, searchOpenedItems |-> searchOpenedItems,
   events |-> <<>>]

Commit(w) ==
  /\ initialized' = w.initialized
  /\ instance' = w.instance
  /\ bound' = w.bound
  /\ styleEl' = w.styleEl
  /\ panel' = w.panel
  /\ panelDisplay' = w.panelDisplay
  /\ counterText' = w.counterText
  /\ emptyDisplay' = w.emptyDisplay
  /\ inputValue' = w.inputValue
  /\ timer' = w.timer
  /\ timeouts' = w.timeouts
  /\ dataOpen' = w.dataOpen
  /\ ariaExpanded' = w.ariaExpanded
  /\ ariaControls' = w.ariaControls
  /\ role' = w.role
  /\ activeClass' = w.activeClass
  /\ iconOpen' = w.iconOpen
  /\ iconClose' = w.iconClose
  /\ dataOpenedBySearch' = w.dataOpenedBySearch
  /\ hidden' = w.hidden
  /\ height' = w.height
  /\ title' = w.title
  /\ content' = w.content
  /\ animationTimestamps' = w.animationTimestamps
  /\ onEnd' = w.onEnd
  /\ trans' = w.trans
  /\ box' = w.box
  /\ marks' = w.marks
  /\ currentIndex' = w.currentIndex
  /\ searchOpenedItems' = w.searchOpenedItems
  /\ events' = w.events

\* the current state is the record w
Holds(w) ==
  /\ initialized = w.initialized
  /\ instance = w.instance
  /\ bound = w.bound
  /\ styleEl = w.styleEl
  /\ panel = w.panel
  /\ panelDisplay = w.panelDisplay
  /\ counterText = w.counterText
  /\ emptyDisplay = w.emptyDisplay
  /\ inputValue = w.inputValue
  /\ timer = w.timer
  /\ timeouts = w.timeouts
  /\ dataOpen = w.dataOpen
  /\ ariaExpanded = w.ariaExpanded
  /\ ariaControls = w.ariaControls
  /\ role = w.role
  /\ activeClass = w.activeClass
  /\ iconOpen = w.iconOpen
  /\ iconClose = w.iconClose
  /\ dataOpenedBySearch = w.dataOpenedBySearch
  /\ hidden = w.hidden
  /\ height = w.height
  /\ title = w.title
  /\ content = w.content
  /\ animationTimestamps = w.animationTimestamps
  /\ onEnd = w.onEnd
  /\ trans = w.trans
  /\ box = w.box
  /\ marks = w.marks
  /\ currentIndex = w.currentIndex
  /\ searchOpenedItems = w.searchOpenedItems
  /\ events = w.events

\* ------------------------------------------------------------------------
\* Visibility (index.ts: isElementVisible, isItemOpen)
\* ------------------------------------------------------------------------

\* the hidden attribute gives display: none; otherwise the rendered box decides
isElementVisible(w, i) == ~w.hidden[i] /\ w.box[i]

isItemOpen(w, i) ==
  IF w.dataOpen[i] = "true" \/ (HasTrigger[i] /\ w.ariaExpanded[i] = "true")
  THEN TRUE
  ELSE IF HasContent[i] THEN isElementVisible(w, i) /\ ~w.hidden[i] ELSE FALSE

\* ------------------------------------------------------------------------
\* Icons and animation (index.ts: setIconVisibility, expandElement,
\* collapseElement)
\* ------------------------------------------------------------------------

IconClass(present, visible) ==
  IF ~present THEN "none" ELSE IF visible THEN "visible" ELSE "hidden"

\* A stamp is kept relative to the clock: "now" when it equals Date.now(),
\* "past" when it is older.  onEnd describes the onEnd listeners registered on
\* a content element whose stamp equals animationTimestamps.get(el), in
\* registration order; a listener with an older stamp fails the stamp test
\* for good (stamps never decrease) and is left out.  What the listeners do
\* together when the event arrives depends on the last one (which height
\* stays) and on whether a collapse listener is among them (which sets
\* hidden), so that is what is kept: <<>>, <<"expand">>, <<"collapse">> or
\* <<"collapse", "expand">>.
Register(w, i, kind) ==
  LET live == IF w.animationTimestamps[i] = "now" THEN w.onEnd[i] ELSE <<>>
  IN  IF kind = "collapse" THEN <<"collapse">>
      ELSE IF \E k \in 1..Len(live) : live[k] = "collapse"
           THEN <<"collapse", "expand">>
           ELSE <<"expand">>

\* The height transition exists only while the injected style sheet is in the
\* document; without it the box takes its final height at once.
expandElement(w0, i) ==
  Pick({ [w EXCEPT
            !.animationTimestamps[i] = "now",
            !.hidden[i] = FALSE,
            !.height[i] = "px",
            !.box[i] = IF w.styleEl THEN (~w.hidden[i] /\ w.box[i]) ELSE TRUE,
            !.trans[i] = IF w.styleEl THEN "expand" ELSE "none",
            !.onEnd[i] = Register(w, i, "expand")]
         : w \in {w0} })

collapseElement(w0, i) ==
  Pick({ IF w.hidden[i]
         THEN [w EXCEPT !.animationTimestamps[i] = "now",
                        !.onEnd[i] = IF w.animationTimestamps[i] = "now" THEN @ ELSE <<>>,
                        !.height[i] = ""]
         ELSE [w EXCEPT
                 !.animationTimestamps[i] = "now",
                 !.height[i] = "0px",
                 !.box[i] = IF w.styleEl THEN w.box[i] ELSE FALSE,
                 !.trans[i] = IF w.styleEl THEN "collapse" ELSE "none",
                 !.onEnd[i] = Register(w, i, "collapse")]
         : w \in {w0} })

\* ------------------------------------------------------------------------
\* Item state machine (index.ts: setItemState)
\* ------------------------------------------------------------------------

\* MarkOpened without the removal on a user open
MarkOpenedKeepsTag(w0, i, source) ==
  Pick({ IF source = "search"
         THEN [w EXCEPT !.dataOpenedBySearch[i] = TRUE,
                        !.searchOpenedItems = @ \cup {i}]
         ELSE w
         : w \in {w0} })

\* the provenance bookkeeping after expandElement (lines 260-266)
MarkOpened(w0, i, source) ==
  Pick({ IF source = "search"
         THEN [w EXCEPT !.dataOpenedBySearch[i] = TRUE,
                        !.searchOpenedItems = @ \cup {i}]
         ELSE [w EXCEPT !.dataOpenedBySearch[i] = FALSE,
                        !.searchOpenedItems = @ \ {i}]
         : w \in {w0} })

\* MarkClosed without any removal
MarkClosedKeepsTag(w0, i, source) == w0

\* the provenance bookkeeping after collapseElement (lines 269-272)
MarkClosed(w0, i, source) ==
  Pick({ IF source = "search"
         THEN [w EXCEPT !.dataOpenedBySearch[i] = FALSE,
                        !.searchOpenedItems = @ \ {i}]
         ELSE w
         : w \in {w0} })

\* the CustomEvent of setItemState as the listener sees it: its type, target,
\* bubbles flag and detail, and what the item shows while it is dispatched
ItemEvent(w, i, open) ==
  [type |-> IF open THEN "cur-faq:open" ELSE "cur-faq:close",
   target |-> i, bubbles |-> TRUE, detail |-> [item |-> i],
   shows |-> [dataOpen |-> w.dataOpen[i], ariaExpanded |-> w.ariaExpanded[i],
              activeClass |-> w.activeClass[i],
              iconOpen |-> w.iconOpen[i], iconClose |-> w.iconClose[i]]]

\* dispatchItemEvent that dispatches the event twice
dispatchItemEventTwice(w0, i, open) ==
  Pick({ IF listener
         THEN [w EXCEPT !.events = @ \o <<ItemEvent(w, i, open), ItemEvent(w, i, open)>>]
         ELSE w
         : w \in {w0} })

\* item.item.dispatchEvent(new CustomEvent(eventName, ...)) (lines 275-279)
dispatchItemEvent(w0, i, open) ==
  Pick({ IF listener
         THEN [w EXCEPT !.events = Append(@, ItemEvent(w, i, open))]
         ELSE w
         : w \in {w0} })

\* ApplyItemState without the toggle of the active class
ApplyItemStateKeepsClass(w0, i, open, source) ==
  Pick({ LET flag == IF open THEN "true" ELSE "false"
             w1 == [w EXCEPT
                      !.ariaExpanded[i] = flag,
                      !.dataOpen[i] = flag,
                      !.iconOpen[i] = IconClass(HasIconOpen[i], open),
                      !.iconClose[i] = IconClass(HasIconClose[i], ~open)]
         IN  dispatchItemEvent(
               IF open
               THEN MarkOpened(expandElement(w1, i), i, source)
               ELSE MarkClosed(collapseElement(w1, i), i, source),
               i, open)
         : w \in {w0} })

\* setItemState from the aria-expanded assignment on (lines 252-279)
ApplyItemState(w0, i, open, source) ==
  Pick({ LET flag == IF open THEN "true" ELSE "false"
             w1 == [w EXCEPT
                      !.ariaExpanded[i] = flag,
                      !.dataOpen[i] = flag,
                      !.activeClass[i] = open,
                      !.iconOpen[i] = IconClass(HasIconOpen[i], open),
                      !.iconClose[i] = IconClass(HasIconClose[i], ~open)]
         IN  dispatchItemEvent(
               IF open
               THEN MarkOpened(expandElement(w1, i), i, source)
               ELSE MarkClosed(collapseElement(w1, i), i, source),
               i, open)
         : w \in {w0} })

\* the call setItemState(sibling, false, source, config, searchState) made
\* without a group: the guard, no accordion step, then the state change
CloseItem(w, i, source) ==
  IF ~HasContent[i] \/ ~HasTrigger[i] THEN w ELSE ApplyItemState(w, i, FALSE, source)

\* group.items.forEach over the siblings (lines 245-249)
RECURSIVE CloseSiblings(_, _, _, _)
CloseSiblings(w0, siblings, i, source) ==
  IF siblings = <<>> THEN w0
  ELSE Pick({ CloseSiblings(
                IF Head(siblings) # i /\ isItemOpen(w, Head(siblings))
                THEN CloseItem(w, Head(siblings), source)
                ELSE w,
                Tail(siblings), i, source)
              : w \in {w0} })

\* setItemState without the test of item.content and item.trigger
setItemStateUnguarded(w, i, open, source, g) ==
  ApplyItemState(
    IF open /\ g # 0 /\ accordion[g]
    THEN CloseSiblings(w, GroupItems[g], i, source)
    ELSE w,
    i, open, source)

\* setItemState without the accordion step
setItemStateNoAccordion(w, i, open, source, g) ==
  IF ~HasContent[i] \/ ~HasTrigger[i] THEN w
  ELSE ApplyItemState(w, i, open, source)

\* setItemState whose accordion step closes the open items of every group
setItemStateAllGroups(w, i, open, source, g) ==
  IF ~HasContent[i] \/ ~HasTrigger[i] THEN w
  ELSE ApplyItemState(
         IF open /\ g # 0 /\ accordion[g]
         THEN CloseSiblings(w, Concat(GroupItems), i, source)
         ELSE w,
         i, open, source)

\* setItemState(item, open, source, config, searchState, group); g = 0 when
\* the group argument is omitted or undefined
setItemState(w, i, open, source, g) ==
  IF ~HasContent[i] \/ ~HasTrigger[i] THEN w
  ELSE ApplyItemState(
         IF open /\ g # 0 /\ accordion[g]
         THEN CloseSiblings(w, GroupItems[g], i, source)
         ELSE w,
         i, open, source)

\* ------------------------------------------------------------------------
\* Search: counter, navigation, empty state (index.ts lines 429-490)
\* ------------------------------------------------------------------------

\* counterEl is the floating panel's counter, null without floating search
updateMatchCounter(w0) ==
  Pick({ IF ~floatingSearch THEN w
         ELSE LET total == Len(w.marks)
                  current == IF total = 0 \/ w.currentIndex = -1
                             THEN 0 ELSE w.currentIndex + 1
              IN  [w EXCEPT !.counterText = <<current, total>>]
         : w \in {w0} })

\* the JavaScript remainder a % n (sign of the dividend), n > 0
JsRem(a, n) == IF a >= 0 THEN a % n ELSE 0 - ((0 - a) % n)

\* classList.remove(currentHighlightClass) on every element that carries it
RemoveCurrent(el) ==
  [p \in 1..Len(el) |-> [k \in 1..Len(el[p]) |-> [el[p][k] EXCEPT !.cur = FALSE]]]

\* classList.add(currentHighlightClass) on the <mark> at a position
AddCurrent(w0, target) ==
  Pick({ IF target.part = "title"
         THEN [w EXCEPT !.title[target.item][target.parent][target.node].cur = TRUE]
         ELSE [w EXCEPT !.content[target.item][target.parent][target.node].cur = TRUE]
         : w \in {w0} })

\* navigateToMatch that leaves the class on the previous match
navigateToMatchKeepsCurrent(w0, index) ==
  Pick({ IF Len(w.marks) = 0
         THEN updateMatchCounter([w EXCEPT !.currentIndex = -1])
         ELSE LET len == Len(w.marks)
                  idx == JsRem(JsRem(index, len) + len, len)
              IN  updateMatchCounter(
                    AddCurrent([w EXCEPT !.currentIndex = idx], w.marks[idx + 1]))
         : w \in {w0} })

navigateToMatch(w0, index) ==
  Pick({ IF Len(w.marks) = 0
         THEN updateMatchCounter([w EXCEPT !.currentIndex = -1])
         ELSE LET len == Len(w.marks)
                  idx == JsRem(JsRem(index, len) + len, len)
              IN  updateMatchCounter(
                    AddCurrent(
                      [w EXCEPT !.currentIndex = idx,
                                !.title = [i \in Items |-> RemoveCurrent(w.title[i])],
                                !.content = [i \in Items |-> RemoveCurrent(w.content[i])]],
                      w.marks[idx + 1]))
         : w \in {w0} })

\* advanceMatch that stops at the first and at the last match
advanceMatchClamped(w0, delta) ==
  Pick({ IF Len(w.marks) = 0 THEN w
         ELSE LET next == (IF w.currentIndex = -1 THEN 0 ELSE w.currentIndex) + delta
              IN  navigateToMatch(w, IF next < 0 THEN 0
                                     ELSE IF next >= Len(w.marks) THEN Len(w.marks) - 1
                                     ELSE next)
         : w \in {w0} })

advanceMatch(w0, delta) ==
  Pick({ IF Len(w.marks) = 0 THEN w
         ELSE navigateToMatch(w, (IF w.currentIndex = -1 THEN 0 ELSE w.currentIndex) + delta)
         : w \in {w0} })

\* updateEmptyState that hides the element whatever the argument
updateEmptyStateHides(w, hasMatches) == [w EXCEPT !.emptyDisplay = "none"]

\* the page has an empty-state element
updateEmptyState(w, hasMatches) ==
  [w EXCEPT !.emptyDisplay = IF hasMatches THEN "none" ELSE ""]

\* ------------------------------------------------------------------------
\* Search: core (index.ts: clearAllHighlights, performSearch)
\* ------------------------------------------------------------------------

clearAllHighlights(w0) ==
  Pick({ [w EXCEPT
            !.title = [i \in Items |-> RemoveCurrent(clearHighlights(w.title[i]))],
            !.content = [i \in Items |-> RemoveCurrent(clearHighlights(w.content[i]))],
            !.marks = <<>>,
            !.currentIndex = -1]
         : w \in {w0} })

\* elementContainsText without the normalisation of the element's text
elementContainsTextRaw(present, el, query) ==
  IF present THEN includes(textContent(el), query) ELSE FALSE

elementContainsText(present, el, query) ==
  IF present THEN includes(normalizeText(textContent(el)), query) ELSE FALSE

itemMatchesQuery(w, i, query) ==
  \/ elementContainsText(HasTitle[i], w.title[i], query)
  \/ elementContainsText(HasContent[i], w.content[i], query)

\* CloseStale that closes nothing
CloseStaleKeepsOpen(w0, items, normalised) == w0

\* CloseStale that also closes the items that match the new query
RECURSIVE CloseStaleMatching(_, _, _)
CloseStaleMatching(w0, items, normalised) ==
  IF items = <<>> THEN w0
  ELSE Pick({ CloseStaleMatching(
                IF Head(items) \in w.searchOpenedItems /\ isItemOpen(w, Head(items))
                THEN setItemState(w, Head(items), FALSE, "search", 0)
                ELSE w,
                Tail(items), normalised)
              : w \in {w0} })

\* allItems.forEach: close the items opened by search that no longer match
RECURSIVE CloseStale(_, _, _)
CloseStale(w0, items, normalised) ==
  IF items = <<>> THEN w0
  ELSE Pick({ CloseStale(
                IF /\ Head(items) \in w.searchOpenedItems
                   /\ ~itemMatchesQuery(w, Head(items), normalised)
                   /\ isItemOpen(w, Head(items))
                THEN setItemState(w, Head(items), FALSE, "search", 0)
                ELSE w,
                Tail(items), normalised)
              : w \in {w0} })

\* the body of the second forEach for one matching item (lines 542-545)
HighlightAndOpen(w0, i, normalised) ==
  Pick({ setItemState(
           [w EXCEPT
              !.title[i] = IF HasTitle[i]
                           THEN highlightText(w.title[i], normalised)
                           ELSE w.title[i],
              !.content[i] = IF HasContent[i]
                             THEN highlightText(w.content[i], normalised)
                             ELSE w.content[i]],
           i, TRUE, "search", 0)
         : w \in {w0} })

\* allItems.forEach: highlight the matching items and open them
RECURSIVE OpenMatching(_, _, _)
OpenMatching(w0, items, normalised) ==
  IF items = <<>> THEN w0
  ELSE Pick({ OpenMatching(
                IF \/ elementContainsText(HasTitle[Head(items)], w.title[Head(items)], normalised)
                   \/ elementContainsText(HasContent[Head(items)], w.content[Head(items)], normalised)
                THEN HighlightAndOpen(w, Head(items), normalised)
                ELSE w,
                Tail(items), normalised)
              : w \in {w0} })

\* QueryMarks that lists the marks of an item's content before those of its
\* title
QueryMarksContentFirst(w) ==
  Concat([k \in 1..Len(page.order) |->
            MarksOfElement(w.content[page.order[k]], page.order[k], "content")
            \o MarksOfElement(w.title[page.order[k]], page.order[k], "title")])

\* document.querySelectorAll('mark.' + highlightClass), in document order
QueryMarks(w) ==
  Concat([k \in 1..Len(page.order) |->
            MarksOfElement(w.title[page.order[k]], page.order[k], "title")
            \o MarksOfElement(w.content[page.order[k]], page.order[k], "content")])

\* performSearch from the collection of the marks on (lines 549-559)
CollectMarks(w0) ==
  Pick({ LET found == QueryMarks(w)
         IN  IF Len(found) > 0
             THEN navigateToMatch(
                    [updateEmptyState(w, TRUE) EXCEPT !.marks = found, !.currentIndex = 0], 0)
             ELSE [updateEmptyState(w, FALSE) EXCEPT !.marks = found]
         : w \in {w0} })

\* the CustomEvent of performSearch as the listener sees it, and what the
\* page shows while it is dispatched
SearchEvent(w, query) ==
  [type |-> "cur-faq:search", target |-> 1, bubbles |-> TRUE,
   detail |-> [query |-> query, matchCount |-> Len(w.marks)],
   shows |-> [highlights |-> QueryMarks(w), marks |-> w.marks,
              emptyDisplay |-> w.emptyDisplay, dataOpen |-> w.dataOpen]]

\* document.querySelector(group)?.dispatchEvent(new CustomEvent(
\* 'cur-faq:search', ...)) (lines 561-567)
dispatchSearchEvent(w0, query) ==
  Pick({ IF listener /\ hasGroupEl
         THEN [w EXCEPT !.events = Append(@, SearchEvent(w, query))]
         ELSE w
         : w \in {w0} })

\* performSearch that tests the query before it clears the highlights
performSearchTestsFirst(w0, query) ==
  Pick({ IF normalizeText(query) = <<>> THEN updateEmptyState(w, TRUE)
         ELSE dispatchSearchEvent(
                CollectMarks(
                  OpenMatching(CloseStale(clearAllHighlights(w), allItems,
                                          normalizeText(query)),
                               allItems, normalizeText(query))),
                query)
         : w \in {w0} })

performSearch(w0, query) ==
  Pick({ IF normalizeText(query) = <<>> THEN updateEmptyState(w, TRUE)
         ELSE dispatchSearchEvent(
                CollectMarks(
                  OpenMatching(CloseStale(w, allItems, normalizeText(query)),
                               allItems, normalizeText(query))),
                query)
         : w \in {clearAllHighlights(w0)} })

\* allItems.forEach: close the open items that are in the search-opened set
\* (debounced handler lines 591-595, clearSearch lines 852-856)
RECURSIVE CloseSearchOpened(_, _)
CloseSearchOpened(w0, items) ==
  IF items = <<>> THEN w0
  ELSE Pick({ CloseSearchOpened(
                IF Head(items) \in w.searchOpenedItems /\ isItemOpen(w, Head(items))
                THEN setItemState(w, Head(items), FALSE, "search", 0)
                ELSE w,
                Tail(items))
              : w \in {w0} })

\* instance.clearSearch()
clearSearch(w) ==
  updateEmptyState(updateMatchCounter(CloseSearchOpened(clearAllHighlights(w), allItems)), TRUE)

\* ------------------------------------------------------------------------
\* Input binding (index.ts: bindSearchInput; helpers.ts: debounce)
\* ------------------------------------------------------------------------

\* the synchronisation of the two inputs after performSearch (lines 607-624)
SyncInputs(w0, inp, value) ==
  Pick({ IF inp = "main"
         THEN (IF floatingSearch
               THEN [w EXCEPT !.panelDisplay = "flex", !.inputValue["floating"] = value]
               ELSE w)
         ELSE [w EXCEPT !.inputValue["main"] = value]
         : w \in {w0} })

\* config.timing.searchDebounce, in clock ticks
SearchDebounce == 2

\* debounce whose returned function does not clear the pending timeout
debounceKeepsPending(w0, inp) ==
  Pick({ [w EXCEPT !.timer[inp] = TRUE, !.timeouts[inp] = @ \cup {SearchDebounce}]
         : w \in {w0} })

\* the function returned by debounce(fn, delay) is called: clearTimeout on
\* the pending timeout, then setTimeout with the whole delay
debounce(w0, inp) ==
  Pick({ [w EXCEPT !.timer[inp] = TRUE, !.timeouts[inp] = {SearchDebounce}]
         : w \in {w0} })

\* the function handed to debounce, for the inline input (isMainInput) or the
\* floating input; it reads input.value when the timer fires
debouncedSearch(w0, inp) ==
  Pick({ IF trim(w.inputValue[inp]) = <<>>
         THEN [updateEmptyState(
                 updateMatchCounter(CloseSearchOpened(clearAllHighlights(w), allItems)),
                 TRUE)
               EXCEPT !.panelDisplay = IF inp = "main" /\ floatingSearch THEN "none" ELSE @]
         ELSE SyncInputs(performSearch(w, w.inputValue[inp]), inp, w.inputValue[inp])
         : w \in {w0} })

\* ------------------------------------------------------------------------
\* Life cycle (index.ts: initFaq, bindAccordionListeners, setupAria,
\* createFloatingPanel, destroy)
\* ------------------------------------------------------------------------

\* the page before the module has run
Pristine ==
  [initialized |-> FALSE, instance |-> FALSE, bound |-> FALSE,
   styleEl |-> FALSE, panel |-> FALSE, panelDisplay |-> "none",
   counterText |-> <<0, 0>>, emptyDisplay |-> "",
   inputValue |-> [inp \in Inputs |-> <<>>],
   timer |-> [inp \in Inputs |-> FALSE],
   timeouts |-> [inp \in Inputs |-> {}],
   dataOpen |-> [i \in Items |-> "absent"],
   ariaExpanded |-> [i \in Items |-> "absent"],
   ariaControls |-> [i \in Items |-> FALSE],
   role |-> [i \in Items |-> FALSE],
   activeClass |-> [i \in Items |-> FALSE],
   iconOpen |-> [i \in Items |-> "none"],
   iconClose |-> [i \in Items |-> "none"],
   dataOpenedBySearch |-> [i \in Items |-> FALSE],
   hidden |-> [i \in Items |-> FALSE],
   height |-> [i \in Items |-> ""],
   title |-> PageTitle, content |-> PageContent,
   animationTimestamps |-> [i \in Items |-> "none"],
   onEnd |-> [i \in Items |-> <<>>],
   trans |-> [i \in Items |-> "none"],
   box |-> [i \in Items |-> HasContent[i]],
   marks |-> <<>>, currentIndex |-> -1, searchOpenedItems |-> {},
   events |-> <<>>]

\* InitialClosed that leaves the content elements visible
InitialClosedKeepsContent(w0) ==
  Pick({ [w EXCEPT
            !.dataOpen = [i \in Items |-> IF HasContent[i] THEN "false" ELSE w.dataOpen[i]],
            !.ariaExpanded = [i \in Items |->
                                IF HasContent[i] /\ HasTrigger[i]
                                THEN "false" ELSE w.ariaExpanded[i]],
            !.activeClass = [i \in Items |-> IF HasContent[i] THEN FALSE ELSE w.activeClass[i]],
            !.iconOpen = [i \in Items |->
                            IF HasContent[i]
                            THEN IconClass(HasIconOpen[i], FALSE) ELSE w.iconOpen[i]],
            !.iconClose = [i \in Items |->
                             IF HasContent[i]
                             THEN IconClass(HasIconClose[i], TRUE) ELSE w.iconClose[i]]]
         : w \in {w0} })

\* "Set initial state: all items closed" (lines 760-769)
InitialClosed(w0) ==
  Pick({ [w EXCEPT
            !.hidden = [i \in Items |-> IF HasContent[i] THEN TRUE ELSE w.hidden[i]],
            !.box = [i \in Items |-> IF HasContent[i] THEN FALSE ELSE w.box[i]],
            !.dataOpen = [i \in Items |-> IF HasContent[i] THEN "false" ELSE w.dataOpen[i]],
            !.ariaExpanded = [i \in Items |->
                                IF HasContent[i] /\ HasTrigger[i]
                                THEN "false" ELSE w.ariaExpanded[i]],
            !.activeClass = [i \in Items |-> IF HasContent[i] THEN FALSE ELSE w.activeClass[i]],
            !.iconOpen = [i \in Items |->
                            IF HasContent[i]
                            THEN IconClass(HasIconOpen[i], FALSE) ELSE w.iconOpen[i]],
            !.iconClose = [i \in Items |->
                             IF HasContent[i]
                             THEN IconClass(HasIconClose[i], TRUE) ELSE w.iconClose[i]]]
         : w \in {w0} })

\* DefaultOpen that applies the first group's index to every group
RECURSIVE DefaultOpenFirstGroup(_, _)
DefaultOpenFirstGroup(w0, g) ==
  IF g > Len(GroupItems) THEN w0
  ELSE Pick({ DefaultOpenFirstGroup(
                IF defaultOpen[1] >= 0 /\ defaultOpen[1] < Len(GroupItems[g])
                THEN setItemState(w, GroupItems[g][defaultOpen[1] + 1], TRUE, "user", g)
                ELSE w,
                g + 1)
              : w \in {w0} })

\* "Default open item(s)" (lines 772-779), groups in document order
RECURSIVE DefaultOpen(_, _)
DefaultOpen(w0, g) ==
  IF g > Len(GroupItems) THEN w0
  ELSE Pick({ DefaultOpen(
                IF defaultOpen[g] # -1 /\ defaultOpen[g] >= 0
                   /\ defaultOpen[g] < Len(GroupItems[g])
                THEN setItemState(w, GroupItems[g][defaultOpen[g] + 1], TRUE, "user", g)
                ELSE w,
                g + 1)
              : w \in {w0} })

\* setupAria from bindAccordionListeners: aria-controls, role and tabindex on
\* the trigger (a <div>), an id on the content
setupAria(w0) ==
  Pick({ [w EXCEPT
            !.ariaControls =
              [i \in Items |-> IF HasTrigger[i] /\ HasContent[i] THEN TRUE ELSE w.ariaControls[i]],
            !.role =
              [i \in Items |-> IF HasTrigger[i] /\ HasContent[i] THEN TRUE ELSE w.role[i]]]
         : w \in {w0} })

\* createFloatingPanel and the counter's first text
createFloatingPanel(w0) ==
  Pick({ IF floatingSearch
         THEN updateMatchCounter(
                [w EXCEPT !.panel = TRUE, !.panelDisplay = "none",
                          !.inputValue["floating"] = <<>>])
         ELSE w
         : w \in {w0} })

\* initFaq past its guard (lines 731-899)
Initialise(w0) ==
  Pick({ [createFloatingPanel(
            updateEmptyState(
              setupAria(
                DefaultOpen(
                  InitialClosed(
                    [w EXCEPT !.initialized = TRUE, !.styleEl = TRUE,
                              !.marks = <<>>, !.currentIndex = -1,
                              !.searchOpenedItems = {}]),
                  1)),
              TRUE))
          EXCEPT !.bound = TRUE, !.instance = TRUE]
         : w \in {w0} })

\* initFaq without the test of window.__curFaqInitialized
initFaqUnguarded(w0) == Initialise(w0)

initFaq(w0) ==
  Pick({ IF w.initialized THEN w ELSE Initialise(w) : w \in {w0} })

\* ResetItems that leaves the hidden attribute on the content elements
ResetItemsKeepsHidden(w0) ==
  Pick({ [w EXCEPT
            !.dataOpen = [i \in Items |-> "absent"],
            !.dataOpenedBySearch = [i \in Items |-> FALSE],
            !.activeClass = [i \in Items |-> FALSE],
            !.ariaExpanded = [i \in Items |->
                                IF HasTrigger[i] THEN "absent" ELSE w.ariaExpanded[i]],
            !.ariaControls = [i \in Items |->
                                IF HasTrigger[i] THEN FALSE ELSE w.ariaControls[i]],
            !.height = [i \in Items |-> IF HasContent[i] THEN "" ELSE w.height[i]],
            !.trans = [i \in Items |-> "none"],
            !.initialized = FALSE,
            !.instance = FALSE]
         : w \in {w0} })

\* the attribute, class and style resets of destroy (lines 882-894)
ResetItems(w0) ==
  Pick({ [w EXCEPT
            !.dataOpen = [i \in Items |-> "absent"],
            !.dataOpenedBySearch = [i \in Items |-> FALSE],
            !.activeClass = [i \in Items |-> FALSE],
            !.ariaExpanded = [i \in Items |->
                                IF HasTrigger[i] THEN "absent" ELSE w.ariaExpanded[i]],
            !.ariaControls = [i \in Items |->
                                IF HasTrigger[i] THEN FALSE ELSE w.ariaControls[i]],
            !.hidden = [i \in Items |-> IF HasContent[i] THEN FALSE ELSE w.hidden[i]],
            !.height = [i \in Items |-> IF HasContent[i] THEN "" ELSE w.height[i]],
            !.box = [i \in Items |-> HasContent[i]],
            !.trans = [i \in Items |-> "none"],
            !.initialized = FALSE,
            !.instance = FALSE]
         : w \in {w0} })

\* instance.destroy().  Removing the style sheet and resetting the height
\* end the running height transitions without a transitionend event; the
\* listeners on the content elements and the debounce timers stay.
destroy(w) ==
  ResetItems(clearAllHighlights(
               [w EXCEPT !.bound = FALSE, !.panel = FALSE, !.styleEl = FALSE]))

\* ------------------------------------------------------------------------
\* Transitions (the browser's side of expandElement / collapseElement)
\* ------------------------------------------------------------------------

\* the body of onEnd for a listener whose stamp is current
OnEndEffect(w, i, kind) ==
  IF kind = "expand"
  THEN [w EXCEPT !.height[i] = "auto"]
  ELSE [w EXCEPT !.hidden[i] = TRUE, !.height[i] = ""]

\* a transitionend event for the height property: the listeners whose stamp
\* is current run in registration order, each removes itself and applies its
\* effect
RECURSIVE RunOnEnd(_, _, _)
RunOnEnd(w0, i, listeners) ==
  IF listeners = <<>> THEN [w0 EXCEPT !.onEnd[i] = <<>>]
  ELSE Pick({ RunOnEnd(OnEndEffect(w, i, Head(listeners)), i, Tail(listeners))
              : w \in {w0} })

\* ------------------------------------------------------------------------
\* Inputs of the operations
\* ------------------------------------------------------------------------

\* the queries handed to instance.search()
Queries == { <<" ">>, <<"a">>, <<"B", " ">> }

\* the same and a query that no item matches
AllQueries == Queries \cup { <<"z">> }

\* the same and a query that only matches an element's text across two
\* paragraphs
SearchQueries == AllQueries \cup { <<"x", "y">> }

\* the values typed into an input
InputValues == { <<>>, <<"a">>, <<"z">> }

\* the longest text of the root handed to the highlight engine
MaxLen == 3

\* the texts of that root: letters in both cases and blanks
RootTexts ==
  UNION { [1..n -> {"a", "A", "b", " "}] : n \in 1..MaxLen }

\* the queries handed to highlightText: empty, or letters without blanks
\* (performSearch hands over a normalised, non-empty query)
HighlightQueries ==
  { <<>> } \cup UNION { [1..n -> {"a", "B"}] : n \in 1..2 }

\* ------------------------------------------------------------------------
\* Actions
\* ------------------------------------------------------------------------

Step(w0) == \E w \in {w0} : Commit(w) /\ page' = page

\* instance.open(item)
Open(i) ==
  /\ instance
  /\ Step(setItemState(Cur, i, TRUE, "user", findGroup(i)))

\* instance.close(item)
Close(i) ==
  /\ instance
  /\ Step(setItemState(Cur, i, FALSE, "user", findGroup(i)))

\* the body of instance.toggle(item)
toggle(w0, i) ==
  Pick({ setItemState(w, i, ~isItemOpen(w, i), "user", findGroup(i)) : w \in {w0} })

\* instance.toggle(item)
Toggle(i) ==
  /\ instance
  /\ Step(toggle(Cur, i))

\* handleToggle: a click on the trigger, or keydown Enter / Space on it
Click(i) ==
  /\ bound
  /\ HasTrigger[i]
  /\ Step(setItemState(Cur, i, ~isItemOpen(Cur, i), "user", findGroup(i)))

\* instance.search(query)
Search(q) ==
  /\ instance
  /\ Step(performSearch(Cur, q))

\* instance.clearSearch()
ClearSearch ==
  /\ instance
  /\ Step(clearSearch(Cur))

\* instance.nextMatch(), the panel's next button, Enter in an input
NextMatch ==
  /\ instance
  /\ Step(advanceMatch(Cur, 1))

\* instance.prevMatch(), the panel's previous button, Shift+Enter in an input
PrevMatch ==
  /\ instance
  /\ Step(advanceMatch(Cur, -1))

\* an input event: the value changes and the debounced function is called,
\* which clears the pending timeout and sets a new one
InputEvent(inp, v) ==
  /\ bound
  /\ inp = "floating" => panel
  /\ Step(debounce([Cur EXCEPT !.inputValue[inp] = v], inp))

\* the earliest pending timeout of the input
Earliest(inp) == CHOOSE d \in timeouts[inp] : \A e \in timeouts[inp] : d <= e

\* the rest of the delay passes and the timeout set by debounce fires
TimerFire(inp) ==
  /\ timer[inp]
  /\ Step(debouncedSearch(
            [Cur EXCEPT !.timeouts[inp] = @ \ {Earliest(inp)},
                        !.timer[inp] = (timeouts[inp] \ {Earliest(inp)} # {})],
            inp))

\* the clock advances by one tick: every pending timeout is one tick closer
Elapse ==
  /\ \E inp \in Inputs : \E d \in timeouts[inp] : d > 0
  /\ Step([Cur EXCEPT !.timeouts =
             [inp \in Inputs |-> {IF d > 0 THEN d - 1 ELSE 0 : d \in timeouts[inp]}]])

\* a timeout whose delay has passed fires
Timeout(inp) ==
  /\ 0 \in timeouts[inp]
  /\ TimerFire(inp)

\* Date.now() advances: every stamp is now in the past
Tick ==
  /\ \E i \in Items : animationTimestamps[i] = "now"
  /\ Step([Cur EXCEPT !.animationTimestamps =
             [i \in Items |-> IF animationTimestamps[i] = "now" THEN "past" ELSE animationTimestamps[i]]])

\* the first rendered frame of an expanding element: its box is no longer
\* empty (a collapsing box is empty only when its transition ends)
Frame(i) ==
  /\ trans[i] = "expand"
  /\ animationTimestamps[i] = "past"
  /\ ~box[i]
  /\ Step([Cur EXCEPT !.box[i] = TRUE])

\* the running height transition completes: transitionend on the content
TransitionEnd(i) ==
  /\ trans[i] # "none"
  /\ animationTimestamps[i] = "past"
  /\ Step(RunOnEnd([Cur EXCEPT !.box[i] = (trans[i] = "expand"),
                               !.trans[i] = "none"],
                   i, onEnd[i]))

\* instance.destroy()
Destroy ==
  /\ instance
  /\ Step(destroy(Cur))

\* highlightText(root, query, highlightClass) on the title element of item 1,
\* which holds no <mark>
HighlightRoot(q) ==
  /\ \A p \in 1..Len(title[1]) : ~HasMark(title[1][p])
  /\ Step([Cur EXCEPT !.title[1] = highlightText(title[1], q)])

\* clearHighlights(root, highlightClass) on the title element of item 1
ClearRoot ==
  Step([Cur EXCEPT !.title[1] = clearHighlights(title[1])])

\* resolveConfig() and parseFaqGroups() on a page that was not parsed yet
ParseFaqGroups ==
  /\ page.groupItems = <<>>
  /\ page' = Parsed(page)
  /\ UNCHANGED <<initialized, instance, bound, styleEl, panel, panelDisplay,
                 counterText, emptyDisplay, inputValue, timer, timeouts, dataOpen,
                 ariaExpanded, ariaControls, role, activeClass, iconOpen,
                 iconClose, dataOpenedBySearch, hidden, height, title, content,
                 animationTimestamps, onEnd, trans, box, marks, currentIndex,
                 searchOpenedItems, events>>

\* initFaq() called again by the page.  The model follows one searchState:
\* after destroy() the page calls it once the debounce timers of the destroyed
\* instance have fired.
InitFaq ==
  /\ initialized \/ \A inp \in Inputs : ~timer[inp]
  /\ Step(initFaq(Cur))

\* the state after the module has initialised itself on the page
InitOn(pg) == page = pg /\ \E w \in {initFaq(Pristine)} : Holds(w)

Init == InitOn(SmallPage)

Next ==
  \/ \E i \in Items : Open(i)
  \/ \E i \in Items : Close(i)
  \/ \E i \in Items : Toggle(i)
  \/ \E i \in Items : Click(i)
  \/ \E q \in AllQueries : Search(q)
  \/ ClearSearch
  \/ NextMatch
  \/ PrevMatch
  \/ \E inp \in Inputs, v \in InputValues : InputEvent(inp, v)
  \/ \E inp \in Inputs : TimerFire(inp)
  \/ Tick
  \/ \E i \in Items : Frame(i)
  \/ \E i \in Items : TransitionEnd(i)
  \/ Destroy
  \/ InitFaq

\* every operation, on the page with one complete item
Spec == Init /\ [][Next]_vars

\* the item state machine, the search and the transitions
NextGroups ==
  \/ \E i \in Items : Open(i)
  \/ \E i \in Items : Close(i)
  \/ \E i \in Items : Toggle(i)
  \/ \E i \in Items : Click(i)
  \/ \E q \in Queries : Search(q)
  \/ ClearSearch
  \/ Tick
  \/ \E i \in Items : Frame(i)
  \/ \E i \in Items : TransitionEnd(i)

\* on the page with two complete items in the accordion group
InitAccordion == InitOn(PairPage)

SpecAccordion == InitAccordion /\ [][NextGroups]_vars

\* the search, the match navigation and the inputs
NextSearch ==
  \/ \E q \in SearchQueries : Search(q)
  \/ ClearSearch
  \/ NextMatch
  \/ PrevMatch
  \/ \E inp \in Inputs, v \in InputValues : InputEvent(inp, v)
  \/ \E inp \in Inputs : TimerFire(inp)

\* on the page with two complete items in the accordion group
SpecSearch == InitAccordion /\ [][NextSearch]_vars

\* the highlight engine alone, on a title element with any text
InitHighlight ==
  /\ page = SmallPage
  /\ \E t \in RootTexts :
       \E w \in {[Pristine EXCEPT !.title[1] = << <<TextNode(t)>> >>]} : Holds(w)

NextHighlight ==
  \/ \E q \in HighlightQueries : HighlightRoot(q)
  \/ ClearRoot

SpecHighlight == InitHighlight /\ [][NextHighlight]_vars

\* the inputs under the clock
NextDebounce ==
  \/ \E inp \in Inputs, v \in InputValues : InputEvent(inp, v)
  \/ \E inp \in Inputs : Timeout(inp)
  \/ Elapse

\* on the page with two complete items in the accordion group
SpecDebounce == InitAccordion /\ [][NextDebounce]_vars

\* the operations that open and close items
NextEvents ==
  \/ \E i \in Items : Open(i)
  \/ \E i \in Items : Close(i)
  \/ \E i \in Items : Toggle(i)
  \/ \E i \in Items : Click(i)
  \/ \E q \in SearchQueries : Search(q)
  \/ ClearSearch

\* on the pages with a listener: two complete items in the accordion group,
\* or the same items without group elements
InitEvents == \E pg \in {ListeningPage, UngroupedPage} : InitOn(pg)

SpecEvents == InitEvents /\ [][NextEvents]_vars

\* the parser alone, on every arrangement of the item elements
InitParse ==
  /\ \E doc \in Docs : page = Unparsed(doc, NoElement)
  /\ \E w \in {Pristine} : Holds(w)

NextParse == ParseFaqGroups

SpecParse == InitParse /\ [][NextParse]_vars

\* the configuration resolution alone, on every value of the attributes
InitConfig ==
  /\ \E n \in IntAttrs, b \in BoolAttrs, c \in ClassAttrs, swap \in BOOLEAN :
       page = Unparsed(ConfigDoc(n, b, swap), ConfigSearchEl(n, b, c))
  /\ \E w \in {Pristine} : Holds(w)

SpecConfig == InitConfig /\ [][NextParse]_vars

\* initialisation, teardown and the programmatic open and close
NextInit ==
  \/ \E i \in Items : Open(i)
  \/ \E i \in Items : Close(i)
  \/ Destroy
  \/ InitFaq

\* on the full page under every group configuration
InitAnyPage == \E pg \in InitPages : InitOn(pg)

SpecInit == InitAnyPage /\ [][NextInit]_vars

\* the item state machine and the search while the transitions they start
\* are running
NextRunning ==
  \/ \E i \in Items : Open(i)
  \/ \E i \in Items : Close(i)
  \/ \E i \in Items : Toggle(i)
  \/ \E i \in Items : Click(i)
  \/ \E q \in Queries : Search(q)
  \/ ClearSearch
  \/ Tick
  \/ \E i \in Items : Frame(i)

\* on the page with three complete items in two groups
InitGroups == InitOn(FullPage)

SpecGroups == InitGroups /\ [][NextRunning]_vars

\* ------------------------------------------------------------------------
\* Vocabulary of the properties
\* ------------------------------------------------------------------------

\* the item has a trigger and a content element
Complete(i) == HasTrigger[i] /\ HasContent[i]

\* the items of a group, as a set
Members(g) == {GroupItems[g][k] : k \in 1..Len(GroupItems[g])}

\* the step is open(i), or a toggle or trigger click that opens i
UserOpens(i) ==
  \/ Open(i)
  \/ ~isItemOpen(Cur, i) /\ (Toggle(i) \/ Click(i))

\* text contains q when letter case is ignored
ContainsIgnoringCase(text, q) ==
  \E off \in 0..(Len(text) - Len(q)) :
    \A k \in 1..Len(q) : ToLowerChar(text[off + k]) = ToLowerChar(q[k])

\* the title text or the content text the author wrote contains q
PageMatches(i, q) ==
  \/ HasTitle[i] /\ ContainsIgnoringCase(textContent(PageTitle[i]), q)
  \/ HasContent[i] /\ ContainsIgnoringCase(textContent(PageContent[i]), q)

\* the number of <mark> elements in the titles and contents given
MarkCount(t, c) == Len(QueryMarks([title |-> t, content |-> c]))

\* ------------------------------------------------------------------------
\* C1
\* ------------------------------------------------------------------------

\* C1 as stated: after open(X) (or a toggle / click that opens X) on a
\* complete item X of an accordion group, X carries data-faq-open="true" and
\* every other item of the group carries data-faq-open="false"
C1_EveryOtherItemFalse ==
  [][\A g \in Groups : \A i \in Members(g) :
       (accordion[g] /\ Complete(i) /\ UserOpens(i))
       => /\ dataOpen'[i] = "true"
          /\ \A j \in Members(g) \ {i} : dataOpen'[j] = "false"]_vars

\* C1 amended: after open(X) (or a toggle / click that opens X) on a complete
\* item X of an accordion group, X carries data-faq-open="true", no other
\* item of the group carries "true", and every other item of the group that
\* has a content element carries "false"
C1_AccordionExclusive ==
  [][\A g \in Groups : \A i \in Members(g) :
       (accordion[g] /\ Complete(i) /\ UserOpens(i))
       => /\ dataOpen'[i] = "true"
          /\ \A j \in Members(g) \ {i} :
               /\ dataOpen'[j] # "true"
               /\ HasContent[j] => dataOpen'[j] = "false"]_vars

\* an accordion sibling that a search had opened was closed by opening item 2
\* in the same millisecond
C1_Witness ==
  /\ accordion[1]
  /\ dataOpen[2] = "true" /\ animationTimestamps[2] = "now" /\ ~dataOpenedBySearch[2]
  /\ dataOpen[1] = "false" /\ animationTimestamps[1] = "now" /\ trans[1] = "collapse"
  /\ 1 \in searchOpenedItems

\* ------------------------------------------------------------------------
\* C2
\* ------------------------------------------------------------------------

\* C2: in every reachable state an accordion group has at most one item whose
\* open marker is "true"
C2_AtMostOneOpen ==
  \A g \in Groups :
    accordion[g] => Cardinality({i \in Members(g) : dataOpen[i] = "true"}) <= 1

\* ------------------------------------------------------------------------
\* C3
\* ------------------------------------------------------------------------

\* C3: after search(q) with a non-empty normalised query, every complete item
\* whose title or content text contains the query, case ignored, is open and
\* tagged as opened by search, and every item that was closed before and does
\* not match is still closed
C3_SearchOpensMatches ==
  [][\A q \in Queries :
       (normalizeText(q) # <<>> /\ Search(q))
       => \A i \in Items :
            /\ (Complete(i) /\ PageMatches(i, normalizeText(q)))
               => /\ dataOpen'[i] = "true"
                  /\ dataOpenedBySearch'[i]
                  /\ i \in searchOpenedItems'
            /\ (dataOpen[i] = "false" /\ ~PageMatches(i, normalizeText(q)))
               => dataOpen'[i] = "false"]_vars

\* a search for "b" has just opened item 1 and left item 2 closed
C3_Witness ==
  /\ dataOpen[1] = "true" /\ dataOpenedBySearch[1] /\ animationTimestamps[1] = "now"
  /\ HasMark(title[1][1]) /\ HasMark(content[5][1])
  /\ Complete(2) /\ dataOpen[2] = "false"

\* ------------------------------------------------------------------------
\* C4
\* ------------------------------------------------------------------------

\* C4: after clearSearch() no highlight marker remains in any item, and every
\* item that was open with provenance "search" is closed and no longer
\* carries data-opened-by-search
C4_ClearSearch ==
  [][ClearSearch
     => /\ MarkCount(title', content') = 0
        /\ \A i \in Items :
             (dataOpen[i] = "true" /\ dataOpenedBySearch[i] /\ i \in searchOpenedItems)
             => /\ dataOpen'[i] = "false"
                /\ ~dataOpenedBySearch'[i]]_vars

\* both items that a search for "a" had opened were closed in the same
\* millisecond and no marker is left
C4_Witness ==
  /\ MarkCount(title, content) = 0 /\ marks = <<>>
  /\ \A i \in {1, 2} :
       /\ dataOpen[i] = "false" /\ ~dataOpenedBySearch[i] /\ i \notin searchOpenedItems
       /\ trans[i] = "collapse" /\ animationTimestamps[i] = "now"

\* ------------------------------------------------------------------------
\* C5
\* ------------------------------------------------------------------------

\* C5: whenever a complete item is closed, by close(), a toggle, a trigger
\* click, an accordion closure or a search, it afterwards carries no
\* data-opened-by-search and is not in the search-opened set
C5_CloseClearsProvenance ==
  [][\A i \in Items :
       (Complete(i) /\ dataOpen[i] = "true" /\ dataOpen'[i] = "false")
       => /\ ~dataOpenedBySearch'[i]
          /\ i \notin searchOpenedItems']_vars

\* ------------------------------------------------------------------------
\* C6
\* ------------------------------------------------------------------------

\* C6: an open by the user removes the item's search-opened marker and its
\* membership in the search-opened set, and an open item without that marker
\* and membership stays open over clearSearch() and over a search that it
\* does not match
C6_UserOpenSurvives ==
  [][\A i \in Items :
       Complete(i)
       => /\ UserOpens(i) => (~dataOpenedBySearch'[i] /\ i \notin searchOpenedItems')
          /\ (/\ dataOpen[i] = "true"
              /\ ~dataOpenedBySearch[i]
              /\ i \notin searchOpenedItems
              /\ \/ ClearSearch
                 \/ \E q \in Queries : ~PageMatches(i, normalizeText(q)) /\ Search(q))
             => dataOpen'[i] = "true"]_vars

\* item 2 is open by the user while the markers of a search for "b", which
\* it does not match, are in the page
C6_Witness ==
  /\ dataOpen[2] = "true" /\ ~dataOpenedBySearch[2] /\ 2 \notin searchOpenedItems
  /\ HasMark(content[5][1])
  /\ dataOpenedBySearch[1]

\* ------------------------------------------------------------------------
\* C7
\* ------------------------------------------------------------------------

\* the observable open state of an item
Observable(w, i) == <<w.dataOpen[i], w.ariaExpanded[i], w.activeClass[i]>>

\* C7: in every reachable state, toggle(item) called twice on a complete item
\* returns its data-faq-open marker, aria-expanded flag and active class to
\* what they were
C7_ToggleInvolution ==
  \A i \in Items :
    Complete(i) => Observable(toggle(toggle(Cur, i), i), i) = Observable(Cur, i)

\* ------------------------------------------------------------------------
\* C8
\* ------------------------------------------------------------------------

\* C8: open, close, toggle or a trigger click on an item changes neither the
\* open marker, nor the aria-expanded flag, nor the active class, nor the
\* search-opened marker of an item of another group
C8_CrossGroupIsolation ==
  [][\A g \in Groups : \A j \in Members(g) :
       (\/ dataOpen'[j] # dataOpen[j]
        \/ ariaExpanded'[j] # ariaExpanded[j]
        \/ activeClass'[j] # activeClass[j]
        \/ dataOpenedBySearch'[j] # dataOpenedBySearch[j])
       => \A i \in Items \ Members(g) :
            ~(Open(i) \/ Close(i) \/ Toggle(i) \/ Click(i))]_vars

\* item 3 of the second group is open while opening item 2 has just closed
\* item 1 in the accordion group
C8_Witness ==
  /\ dataOpen[3] = "true" /\ animationTimestamps[3] = "past"
  /\ dataOpen[2] = "true" /\ animationTimestamps[2] = "now"
  /\ dataOpen[1] = "false" /\ trans[1] = "collapse" /\ animationTimestamps[1] = "now"

\* ------------------------------------------------------------------------
\* C9
\* ------------------------------------------------------------------------

TornDown ==
  /\ ~styleEl
  /\ ~panel
  /\ ~initialized
  /\ ~instance
  /\ MarkCount(title, content) = 0
  /\ \A i \in Items :
       /\ dataOpen[i] = "absent"
       /\ ~dataOpenedBySearch[i]
       /\ ~activeClass[i]
       /\ ariaExpanded[i] = "absent"
       /\ ~ariaControls[i]
       /\ ~hidden[i]

\* C10: right after destroy() the style element and the floating panel are
\* gone, no item carries data-faq-open, data-opened-by-search or the active
\* class, no trigger carries aria-expanded or aria-controls, no content is
\* hidden, no highlight marker remains and the global flag and instance
\* reference are cleared
C10_DestroyResets ==
  [][Destroy
     => /\ ~styleEl'
        /\ ~panel'
        /\ ~initialized'
        /\ ~instance'
        /\ MarkCount(title', content') = 0
        /\ \A i \in Items :
             /\ dataOpen'[i] = "absent"
             /\ ~dataOpenedBySearch'[i]
             /\ ~activeClass'[i]
             /\ ariaExpanded'[i] = "absent"
             /\ ~ariaControls'[i]
             /\ ~hidden'[i]]_vars

\* the instance was destroyed while item 1 was open and a debounce timer was
\* pending
C10_Witness ==
  /\ TornDown
  /\ iconOpen[1] = "visible"
  /\ timer["main"]

\* ------------------------------------------------------------------------
\* C11
\* ------------------------------------------------------------------------

\* every attribute, class, inline style and text node is as the page author
\* wrote it
PageAsFound ==
  /\ ~styleEl
  /\ ~panel
  /\ emptyDisplay = Pristine.emptyDisplay
  /\ dataOpen = Pristine.dataOpen
  /\ dataOpenedBySearch = Pristine.dataOpenedBySearch
  /\ activeClass = Pristine.activeClass
  /\ ariaExpanded = Pristine.ariaExpanded
  /\ ariaControls = Pristine.ariaControls
  /\ role = Pristine.role
  /\ iconOpen = Pristine.iconOpen
  /\ iconClose = Pristine.iconClose
  /\ hidden = Pristine.hidden
  /\ height = Pristine.height
  /\ title = Pristine.title
  /\ content = Pristine.content

\* C11: destroy() leaves every attribute, class, inline style and text node
\* of the page as it was before init
C11_TeardownRoundTrip == [][Destroy => PageAsFound']_vars

\* ------------------------------------------------------------------------
\* C12
\* ------------------------------------------------------------------------

\* C12: when a height transition completes, only the callback of the
\* transition started last acts on the content element: after an expand the
\* element is not hidden and its height is "auto", after a collapse it is
\* hidden and its height is unset
C12_StaleCallbackIgnored ==
  [][\A i \in Items :
       TransitionEnd(i)
       => IF trans[i] = "expand"
          THEN ~hidden'[i] /\ height'[i] = "auto"
          ELSE hidden'[i] /\ height'[i] = ""]_vars

\* ------------------------------------------------------------------------
\* C13
\* ------------------------------------------------------------------------

\* C13: an instance exists exactly while the global flag is set; initFaq()
\* called while the flag is set changes nothing, and called after destroy()
\* it sets the flag and creates an instance with bound listeners, injected
\* styles and an empty search state
C13_InitGuard ==
  /\ [](instance <=> initialized)
  /\ [][InitFaq
        => IF initialized
           THEN UNCHANGED vars
           ELSE /\ initialized' /\ instance' /\ bound' /\ styleEl'
                /\ marks' = <<>> /\ currentIndex' = -1
                /\ searchOpenedItems' = {}]_vars

\* a second instance, created after the first was destroyed while item 1 was
\* expanding
C13_Witness ==
  /\ instance /\ initialized /\ bound
  /\ dataOpen[1] = "false" /\ hidden[1]
  /\ onEnd[1] = <<"expand">>

\* ------------------------------------------------------------------------
\* C14
\* ------------------------------------------------------------------------

\* the item at the group's default-open index, 0 when there is none
Target(g) ==
  IF defaultOpen[g] >= 0 /\ defaultOpen[g] < Len(GroupItems[g])
  THEN GroupItems[g][defaultOpen[g] + 1]
  ELSE 0

\* the item shows the closed state in every indicator it has
ShowsClosed(i) ==
  /\ dataOpen[i] = "false"
  /\ HasContent[i] => hidden[i]
  /\ HasIconClose[i] => iconClose[i] = "visible"
  /\ HasIconOpen[i] => iconOpen[i] = "hidden"
  /\ HasTrigger[i] => ariaExpanded[i] = "false"
  /\ ~activeClass[i]

\* the state is the one initialisation leaves on the page as its author
\* wrote it
FirstInitialised == \E w \in {Initialise(Pristine)} : Holds(w)

\* C14 as stated: right after initialisation every parsed item that is not
\* its group's default-open target shows the closed state
AllClosedButTargets ==
  \A g \in Groups : \A i \in Members(g) : i # Target(g) => ShowsClosed(i)

C14_EveryItemClosed ==
  /\ [](FirstInitialised => AllClosedButTargets)
  /\ [][(InitFaq /\ ~initialized) => AllClosedButTargets']_vars

\* C14 amended: right after initialisation every parsed item that has a
\* content element and is not its group's default-open target shows the
\* closed state
ContentItemsClosedButTargets ==
  \A g \in Groups : \A i \in Members(g) :
    (HasContent[i] /\ i # Target(g)) => ShowsClosed(i)

C14_ContentItemsClosed ==
  /\ [](FirstInitialised => ContentItemsClosedButTargets)
  /\ [][(InitFaq /\ ~initialized) => ContentItemsClosedButTargets']_vars

\* a second initialisation has closed item 2, which was open when the first
\* instance was destroyed, next to the default-open item 1
C14_Witness ==
  /\ instance
  /\ defaultOpen[1] = 0 /\ dataOpen[1] = "true"
  /\ dataOpen[2] = "false" /\ hidden[2] /\ onEnd[2] = <<"expand">>

\* ------------------------------------------------------------------------
\* C15
\* ------------------------------------------------------------------------

\* the items of the group whose open marker is "true"
OpenItems(g) == {i \in Members(g) : dataOpen[i] = "true"}

\* C15 as stated: right after init, a group with an index in range has
\* exactly the item at that index open and a group with any other index has
\* no open item
ExactlyTargetsOpen ==
  \A g \in Groups :
    OpenItems(g) = IF Target(g) # 0 THEN {Target(g)} ELSE {}

C15_ExactlyIndexOpen ==
  /\ [](FirstInitialised => ExactlyTargetsOpen)
  /\ [][(InitFaq /\ ~initialized) => ExactlyTargetsOpen']_vars

\* C15 amended: right after init, a group whose index is in range and names
\* an item with trigger and content has exactly that item open, and a group
\* with any other index (none, negative, too large, or naming an item without
\* trigger or content) has no open item
ExactlyCompleteTargetsOpen ==
  \A g \in Groups :
    OpenItems(g) = IF Target(g) # 0 /\ Complete(Target(g)) THEN {Target(g)} ELSE {}

C15_CompleteIndexOpen ==
  /\ [](FirstInitialised => ExactlyCompleteTargetsOpen)
  /\ [][(InitFaq /\ ~initialized) => ExactlyCompleteTargetsOpen']_vars

\* the second item of the first group is open by default while the second
\* group's index is out of range and none of its items is open
C15_Witness ==
  /\ instance /\ animationTimestamps[2] = "now"
  /\ defaultOpen = <<1, 2>>
  /\ OpenItems(1) = {2} /\ OpenItems(2) = {}
  /\ \A i \in Items \ {2} : animationTimestamps[i] = "none"

\* ------------------------------------------------------------------------
\* C16
\* ------------------------------------------------------------------------

\* the inline display the empty-state element has after a search or debounced
\* handler run with the given text: shown ("" lets the style sheet show it)
\* iff the text is not blank and the match list is empty
EmptyDisplayFor(text, found) ==
  IF normalizeText(text) # <<>> /\ found = <<>> THEN "" ELSE "none"

\* C16: the empty-state element is hidden after init, after clearSearch() and
\* after a search or debounced handler run whose query is blank or finds a
\* match; it is shown after one whose query is not blank and finds nothing;
\* the match navigation and the input events leave its display alone
C16_EmptyState ==
  /\ emptyDisplay = "none"
  /\ [][/\ emptyDisplay' = "none" \/ ~ClearSearch
        /\ \A q \in SearchQueries :
             emptyDisplay' = EmptyDisplayFor(q, marks') \/ ~Search(q)
        /\ \A inp \in Inputs :
             \/ emptyDisplay' = EmptyDisplayFor(inputValue[inp], marks')
             \/ ~(timer[inp] /\ TimerFire(inp))
        /\ \/ emptyDisplay' = emptyDisplay
           \/ ClearSearch
           \/ \E q \in SearchQueries : Search(q)
           \/ \E inp \in Inputs : TimerFire(inp)]_vars

\* the debounced handler of the inline input has searched for "z", found
\* nothing and shown the empty state
C16_Witness ==
  /\ instance
  /\ emptyDisplay = "" /\ marks = <<>>
  /\ inputValue["main"] = <<"z">> /\ ~timer["main"]
  /\ inputValue["floating"] = <<"z">>

\* ------------------------------------------------------------------------
\* C17
\* ------------------------------------------------------------------------

\* some item's title or content text contains the query
SomeItemMatches(q) == \E i \in Items : PageMatches(i, q)

\* C17: after a search with a non-empty query the empty state is shown iff no
\* item's title or content text contains the query, and when an item matches
\* the match list is not empty
C17_EmptyIffNoItemMatches ==
  [][\A q \in SearchQueries :
       \/ /\ (emptyDisplay' = "") <=> ~SomeItemMatches(normalizeText(q))
          /\ SomeItemMatches(normalizeText(q)) => marks' # <<>>
       \/ normalizeText(q) = <<>>
       \/ ~Search(q)]_vars

\* ------------------------------------------------------------------------
\* C18
\* ------------------------------------------------------------------------

\* the first position at or after pos where q occurs in text, case ignored;
\* -1 when there is none
FirstOccurrence(text, q, pos) ==
  LET at == {k \in pos..(Len(text) - Len(q)) :
               \A j \in 1..Len(q) : ToLowerChar(text[k + j]) = ToLowerChar(q[j])}
  IN  IF at = {} THEN -1 ELSE CHOOSE k \in at : \A h \in at : k <= h

\* the leftmost-first, non-overlapping occurrences of q in text from pos on,
\* each as <<offset, matched text>>
RECURSIVE Occurrences(_, _, _)
Occurrences(text, q, pos) ==
  LET idx == FirstOccurrence(text, q, pos)
  IN  IF q = <<>> \/ idx = -1 THEN <<>>
      ELSE << <<idx, SubSeq(text, idx + 1, idx + Len(q))>> >>
           \o Occurrences(text, q, idx + Len(q))

\* the markers among the child nodes, each as <<offset, marker text>>, the
\* offset counted in the text of the nodes before it
RECURSIVE MarkerSpans(_, _)
MarkerSpans(nodes, offset) ==
  IF nodes = <<>> THEN <<>>
  ELSE (IF Head(nodes).mark THEN << <<offset, Head(nodes).text>> >> ELSE <<>>)
       \o MarkerSpans(Tail(nodes), offset + Len(Head(nodes).text))

\* C18: after highlightText on a text node, the markers are exactly the
\* leftmost-first non-overlapping occurrences of the normalised query in the
\* node's text, each holding the matched text, also when the text starts or
\* ends with blanks; an empty query creates no marker
C18_MarkersAreOccurrences ==
  [][\A q \in HighlightQueries :
       HighlightRoot(q)
       => MarkerSpans(title'[1][1], 0)
          = Occurrences(ParentText(title[1][1]), normalizeText(q), 0)]_vars

\* ------------------------------------------------------------------------
\* C19
\* ------------------------------------------------------------------------

\* no <mark>, no empty text node and no two text nodes side by side
Merged(nodes) ==
  /\ ~HasMark(nodes)
  /\ \A k \in 1..Len(nodes) : nodes[k].text # <<>>
  /\ Len(nodes) <= 1

\* C19: highlightText never changes the text of the root; clearHighlights
\* leaves no marker, the same text, no empty text node and no two adjacent
\* text nodes; it is idempotent and changes nothing when there is no marker
C19_HighlightClearRoundTrip ==
  /\ [](/\ clearHighlights(clearHighlights(title[1])) = clearHighlights(title[1])
        /\ (\A p \in 1..Len(title[1]) : ~HasMark(title[1][p]))
           => clearHighlights(title[1]) = title[1])
  /\ [][/\ \A q \in HighlightQueries :
             HighlightRoot(q) => textContent(title'[1]) = textContent(title[1])
        /\ ClearRoot
           => /\ textContent(title'[1]) = textContent(title[1])
              /\ \A p \in 1..Len(title'[1]) : Merged(title'[1][p])]_vars

\* two markers side by side and an empty text node behind them, which
\* clearHighlights has to merge into one text node
C19_Witness ==
  /\ Len(title[1][1]) = 3
  /\ title[1][1][1].mark /\ title[1][1][2].mark
  /\ title[1][1][3] = TextNode(<<>>)

\* ------------------------------------------------------------------------
\* C20
\* ------------------------------------------------------------------------

\* the step moves the cursor by delta on the ring of the matches, or changes
\* nothing when there is no match
MovesOnRing(delta) ==
  IF marks = <<>> THEN UNCHANGED vars
  ELSE /\ marks' = marks
       /\ currentIndex' =
            ((IF currentIndex = -1 THEN 0 ELSE currentIndex) + delta) % Len(marks)

\* C20: nextMatch and prevMatch move the cursor by +1 and -1 modulo the
\* number of matches, an unset cursor counting as 0, so that they wrap at the
\* last and the first match; nextMatch followed by prevMatch restores the
\* cursor; without matches they change nothing
C20_NavigationRing ==
  /\ [](marks # <<>>
        => advanceMatch(advanceMatch(Cur, 1), -1).currentIndex = currentIndex)
  /\ [][/\ NextMatch => MovesOnRing(1)
        /\ PrevMatch => MovesOnRing(-1)]_vars

\* the cursor is on the last of three matches
C20_Witness ==
  /\ Len(marks) = 3
  /\ currentIndex = 2
  /\ counterText = <<3, 3>>

\* ------------------------------------------------------------------------
\* C21
\* ------------------------------------------------------------------------

\* the counter shows <cursor + 1>/<N> for a match list of N > 0 entries and
\* 0/0 for an empty one
CounterAgrees ==
  counterText = IF Len(marks) > 0 THEN <<currentIndex + 1, Len(marks)>> ELSE <<0, 0>>

\* C21: with the floating panel, after every search, clearSearch, nextMatch
\* and prevMatch the counter text is <cursor + 1>/<N> when the match list has
\* N > 0 entries and 0/0 when it is empty
C21_CounterAgrees ==
  [][\/ ~floatingSearch
     \/ CounterAgrees'
     \/ ~(\/ \E q \in SearchQueries : Search(q)
          \/ ClearSearch \/ NextMatch \/ PrevMatch)]_vars

\* ------------------------------------------------------------------------
\* C22
\* ------------------------------------------------------------------------

\* C22: with the floating panel in the document, after the debounced handler
\* of either input has run (and no input event of the other input is still
\* waiting for its own handler) the inline input and the floating input hold
\* the same value
C22_InputsSynced ==
  [][\A inp \in Inputs :
       \/ inputValue'["main"] = inputValue'["floating"]
       \/ ~(floatingSearch /\ panel)
       \/ \E other \in Inputs : timer'[other]
       \/ ~TimerFire(inp)]_vars

\* ------------------------------------------------------------------------
\* C23
\* ------------------------------------------------------------------------

\* everything an input event may not touch: all but the input values and the
\* timeouts
SearchResults ==
  <<initialized, instance, bound, styleEl, panel, panelDisplay, counterText,
    emptyDisplay, dataOpen, ariaExpanded, ariaControls, role, activeClass,
    iconOpen, iconClose, dataOpenedBySearch, hidden, height, title, content,
    animationTimestamps, onEnd, trans, box, marks, currentIndex,
    searchOpenedItems, events>>

\* C23: the debounce is trailing-edge.  An input event runs no search: it
\* only changes the input's value and leaves one pending timeout, a whole
\* delay away, in the place of the one that was pending; a timeout loses at
\* most one tick per step, so it fires no sooner than a whole delay after the
\* last event; a pending timeout is never lost and there is never more than
\* one per input, so a burst ends in one invocation, which uses the input's
\* value at that time
C23_TrailingEdge ==
  /\ [](\A inp \in Inputs :
          /\ Cardinality(timeouts[inp]) <= 1
          /\ timer[inp] <=> timeouts[inp] # {})
  /\ [][\A inp \in Inputs :
          /\ (\E v \in InputValues : InputEvent(inp, v)) =>
               /\ timeouts'[inp] = {SearchDebounce}
               /\ UNCHANGED SearchResults
          /\ \A e \in timeouts'[inp] :
               e = SearchDebounce \/ \E d \in timeouts[inp] : e >= d - 1
          /\ (timer[inp] /\ ~timer'[inp]) => 0 \in timeouts[inp]
          /\ Timeout(inp) =>
               /\ timeouts'[inp] = {}
               /\ marks' = IF trim(inputValue[inp]) = <<>> THEN <<>>
                           ELSE performSearch(Cur, inputValue[inp]).marks]_vars

\* the timeout of the inline input has fired and its search found matches
C23_Witness ==
  /\ ~timer["main"] /\ ~timer["floating"]
  /\ inputValue["main"] = <<"a">>
  /\ inputValue["floating"] = <<"a">>
  /\ panelDisplay = "flex"
  /\ marks # <<>>

\* ------------------------------------------------------------------------
\* C24
\* ------------------------------------------------------------------------

\* the open and close events of a log that were dispatched from item i
EventsOf(log, i) ==
  SelectSeq(log, LAMBDA e : e.type \in {"cur-faq:open", "cur-faq:close"} /\ e.target = i)

\* what an item shows when it is open, or closed
Showing(i, open) ==
  [dataOpen |-> IF open THEN "true" ELSE "false",
   ariaExpanded |-> IF open THEN "true" ELSE "false",
   activeClass |-> open,
   iconOpen |-> IconClass(HasIconOpen[i], open),
   iconClose |-> IconClass(HasIconClose[i], ~open)]

\* C24: a step that changes the open marker of an item with trigger and
\* content sends exactly one event from the item, cur-faq:open when it opened
\* and cur-faq:close when it closed; every such event bubbles, carries the
\* item in its detail and is dispatched when the marker, aria-expanded, the
\* active class and the icon classes show the new state; an open on an item
\* of an accordion group sends one close event for each open sibling and
\* then, last, the open event
C24_ItemEvents ==
  [][/\ \A i \in Items :
          (Complete(i) /\ dataOpen'[i] # dataOpen[i]) =>
            /\ Len(EventsOf(events', i)) = 1
            /\ EventsOf(events', i)[1].type =
                 IF dataOpen'[i] = "true" THEN "cur-faq:open" ELSE "cur-faq:close"
     /\ \A k \in 1..Len(events') :
          events'[k].type \in {"cur-faq:open", "cur-faq:close"} =>
            /\ Complete(events'[k].target)
            /\ events'[k].bubbles
            /\ events'[k].detail = [item |-> events'[k].target]
            /\ events'[k].shows = Showing(events'[k].target, events'[k].type = "cur-faq:open")
     /\ \A g \in Groups : \A i \in Members(g) :
          (accordion[g] /\ Complete(i) /\ UserOpens(i)) =>
            /\ Len(events') =
                 1 + Cardinality({j \in Members(g) \ {i} : Complete(j) /\ isItemOpen(Cur, j)})
            /\ events'[Len(events')].type = "cur-faq:open"
            /\ events'[Len(events')].target = i
            /\ \A j \in Members(g) \ {i} :
                 (Complete(j) /\ isItemOpen(Cur, j)) =>
                   \E k \in 1..(Len(events') - 1) :
                     events'[k].type = "cur-faq:close" /\ events'[k].target = j]_vars

\* the listener has received the close event of item 2 and then the open
\* event of item 1, both in the accordion group
C24_Witness ==
  /\ accordion[1]
  /\ Len(events) = 2
  /\ events[1].type = "cur-faq:close" /\ events[1].target = 2
  /\ events[2].type = "cur-faq:open" /\ events[2].target = 1
  /\ dataOpen[1] = "true" /\ dataOpen[2] = "false"

\* ------------------------------------------------------------------------
\* C25
\* ------------------------------------------------------------------------

\* the search events of a log
SearchEventsOf(log) == SelectSeq(log, LAMBDA e : e.type = "cur-faq:search")

\* C25: every search with a non-empty normalised query sends exactly one
\* cur-faq:search event, the last event of the step, dispatched when the
\* highlights, the open markers, the match list and the empty state are
\* those the search leaves; its detail carries the query and the length of
\* the match list; on pages with groups and on pages with ungrouped items only
C25_SearchEvent ==
  [][\A q \in SearchQueries :
       \/ normalizeText(q) = <<>>
       \/ /\ Len(SearchEventsOf(events')) = 1
          /\ events'[Len(events')].type = "cur-faq:search"
          /\ events'[Len(events')].bubbles
          /\ events'[Len(events')].detail = [query |-> q, matchCount |-> Len(marks')]
          /\ events'[Len(events')].shows =
               [highlights |-> marks', marks |-> marks',
                emptyDisplay |-> emptyDisplay', dataOpen |-> dataOpen']
       \/ ~Search(q)]_vars

\* ------------------------------------------------------------------------
\* C26
\* ------------------------------------------------------------------------

\* how often an item stands in a sequence of items
CountIn(items, i) == Cardinality({k \in 1..Len(items) : items[k] = i})

\* the item elements that are descendants of no group element
Ungrouped(doc) ==
  {doc[k].id : k \in {n \in 1..Len(doc) : doc[n].kind = "item"}}

\* C26: after parsing, every item element of the document belongs to exactly
\* one group and stands exactly once in the instance's item list, and the
\* items of the implicit group are exactly the item elements below no group
\* element
C26_ItemsPartitioned ==
  page.groupItems # <<>> =>
    /\ \A k \in 1..Len(page.order) :
         /\ Cardinality({g \in Groups : page.order[k] \in {GroupItems[g][n] : n \in 1..Len(GroupItems[g])}}) = 1
         /\ CountIn(allItems, page.order[k]) = 1
    /\ \A g \in Groups :
         ~page.explicit[g] =>
           {GroupItems[g][n] : n \in 1..Len(GroupItems[g])} = Ungrouped(page.doc)
    /\ (\E g \in Groups : ~page.explicit[g]) <=> Ungrouped(page.doc) # {}

\* ------------------------------------------------------------------------
\* C27
\* ------------------------------------------------------------------------

\* what setItemState sets on the items and their content elements
ItemStates ==
  <<dataOpen, ariaExpanded, activeClass, iconOpen, iconClose,
    dataOpenedBySearch, hidden, height, box, trans, onEnd, animationTimestamps,
    searchOpenedItems>>

\* C27: an item without content element or without trigger is never open;
\* no step changes its attributes, its classes or its icon classes, puts it
\* into the search-opened set or sends an event from it; and open, close,
\* toggle and a trigger click on it change no item at all (no sibling of an
\* accordion group is closed) and send no event
C27_IncompleteItemsInert ==
  /\ [](\A i \in Items : ~Complete(i) =>
          ~isItemOpen(Cur, i) /\ i \notin searchOpenedItems)
  /\ [][\A i \in Items : ~Complete(i) =>
          /\ dataOpen'[i] = dataOpen[i]
          /\ ariaExpanded'[i] = ariaExpanded[i]
          /\ activeClass'[i] = activeClass[i]
          /\ iconOpen'[i] = iconOpen[i]
          /\ iconClose'[i] = iconClose[i]
          /\ dataOpenedBySearch'[i] = dataOpenedBySearch[i]
          /\ hidden'[i] = hidden[i]
          /\ height'[i] = height[i]
          /\ EventsOf(events', i) = <<>>
          /\ (Open(i) \/ Close(i) \/ Toggle(i) \/ Click(i)) =>
               (events' = <<>> /\ UNCHANGED ItemStates)]_vars

\* a search has highlighted the title of item 4, which has no content
\* element, and has opened item 1; item 4 is as it was
C27_Witness ==
  /\ ~HasContent[4]
  /\ HasMark(title[4][1])
  /\ dataOpen[4] = "absent"
  /\ dataOpen[1] = "true" /\ 1 \in searchOpenedItems

\* ------------------------------------------------------------------------
\* C28
\* ------------------------------------------------------------------------

\* the attribute is missing, empty or whitespace-only
Blank(attr) == ~attr.present \/ \A k \in 1..Len(attr.value) : attr.value[k] = " "

\* the text starts with an integer: an optional sign, then a digit
StartsWithInteger(s) ==
  \/ Len(s) >= 1 /\ IsDigit(s[1])
  \/ Len(s) >= 2 /\ s[1] \in {"-", "+"} /\ IsDigit(s[2])

\* the number a text of digits stands for
RECURSIVE Magnitude(_)
Magnitude(digits) ==
  IF digits = <<>> THEN 0
  ELSE 10 * Magnitude(SubSeq(digits, 1, Len(digits) - 1)) + DigitValue(digits[Len(digits)])

\* the integer a text starts with
LeadingInteger(s) ==
  LET body == IF s[1] \in {"-", "+"} THEN Tail(s) ELSE s
      n == CHOOSE n \in 1..Len(body) :
             /\ \A k \in 1..n : IsDigit(body[k])
             /\ n = Len(body) \/ ~IsDigit(body[n + 1])
  IN  IF s[1] = "-" THEN 0 - Magnitude(SubSeq(body, 1, n))
      ELSE Magnitude(SubSeq(body, 1, n))

\* a numeric attribute falls back when it is blank or starts with no integer
FallsBack(attr) == Blank(attr) \/ ~StartsWithInteger(trim(attr.value))

ExpectedNumber(attr, dflt) ==
  IF FallsBack(attr) THEN dflt ELSE LeadingInteger(trim(attr.value))

ExpectedClass(attr, dflt) == IF Blank(attr) THEN dflt ELSE trim(attr.value)

\* the attribute's value is exactly "true"
ExactlyTrue(attr) == attr.present /\ attr.value = <<"t", "r", "u", "e">>

\* the attribute's value without the blanks around it is "true"
TrimmedTrue(attr) == ~Blank(attr) /\ trim(attr.value) = <<"t", "r", "u", "e">>

\* the resolved configuration of a parsed page: every attribute that is
\* blank, and every numeric attribute that starts with no integer, gives the
\* documented default; a boolean attribute is true as IsTrue says; every
\* group's configuration comes from the attributes of its own element
ConfigResolved(IsTrue(_)) ==
  page.groupItems # <<>> =>
    /\ page.config.timing.searchDebounce =
         ExpectedNumber(page.search.attrs.searchDebounce, 300)
    /\ page.config.timing.collapseDuration = 250
    /\ page.config.floatingSearch = IsTrue(page.search.attrs.floatingSearch)
    /\ page.config.classes.activeClass =
         ExpectedClass(page.search.attrs.activeClass,
                       <<"i", "s", "-", "a", "c", "t", "i", "v", "e">>)
    /\ page.config.classes.highlightClass =
         ExpectedClass(page.search.attrs.highlightClass, DEFAULTS.classes.highlightClass)
    /\ page.config.classes.currentHighlightClass =
         ExpectedClass(page.search.attrs.currentHighlightClass,
                       DEFAULTS.classes.currentHighlightClass)
    /\ \A g \in Groups :
         \E own \in {GroupElsIn(page.doc)[g].attrs} :
           /\ page.groupConfig[g].accordion = IsTrue(own.accordion)
           /\ page.groupConfig[g].defaultOpen.some = ~FallsBack(own.defaultOpen)
           /\ ~FallsBack(own.defaultOpen) =>
                page.groupConfig[g].defaultOpen.value
                  = LeadingInteger(trim(own.defaultOpen.value))
           /\ page.groupConfig[g].collapseDuration =
                ExpectedNumber(own.collapseDuration, 250)

MatchesAfter(i, q) ==
  itemMatchesQuery([title |-> title', content |-> content'], i, normalizeText(q))

\* C29: a search with a non-empty query closes every item that carries the
\* opened-by-search tag, is open and does not match the query, and removes
\* its tag; after the search every open item with the tag matches the query
C29_StaleClosed ==
  [][\A q \in SearchQueries :
       \/ /\ \A i \in Items :
               (/\ dataOpenedBySearch[i]
                /\ dataOpen[i] = "true"
                /\ ~itemMatchesQuery(Cur, i, normalizeText(q))) =>
                 /\ dataOpen'[i] = "false"
                 /\ ~dataOpenedBySearch'[i]
                 /\ i \notin searchOpenedItems'
          /\ \A i \in Items :
               (dataOpenedBySearch'[i] /\ dataOpen'[i] = "true") => MatchesAfter(i, q)
       \/ normalizeText(q) = <<>>
       \/ ~Search(q)]_vars

\* a search has just closed an item and removed its tag, and opened another
\* item that carries the tag
C29_Witness ==
  \E i, j \in Items :
    /\ Len(SearchEventsOf(events)) = 1
    /\ Len(EventsOf(events, i)) = 1
    /\ EventsOf(events, i)[1].type = "cur-faq:close"
    /\ dataOpen[i] = "false" /\ ~dataOpenedBySearch[i] /\ i \notin searchOpenedItems
    /\ dataOpen[j] = "true" /\ dataOpenedBySearch[j]

\* ------------------------------------------------------------------------
\* C30
\* ------------------------------------------------------------------------

\* C30: during a search with a non-empty query, an item that carries the
\* opened-by-search tag, is open and matches the query sends no close event,
\* shows the open marker "true" at every event it sends, and ends open with
\* the tag
C30_MatchingSpared ==
  [][\A q \in SearchQueries :
       \/ \A i \in Items :
            (/\ dataOpenedBySearch[i]
             /\ dataOpen[i] = "true"
             /\ itemMatchesQuery(Cur, i, normalizeText(q))) =>
              /\ \A k \in 1..Len(EventsOf(events', i)) :
                   /\ EventsOf(events', i)[k].type = "cur-faq:open"
                   /\ EventsOf(events', i)[k].shows.dataOpen = "true"
              /\ \A k \in 1..Len(SearchEventsOf(events')) :
                   SearchEventsOf(events')[k].shows.dataOpen[i] = "true"
              /\ dataOpen'[i] = "true"
              /\ dataOpenedBySearch'[i]
       \/ normalizeText(q) = <<>>
       \/ ~Search(q)]_vars

\* a search whose stale-closure step closed one item has sent the open event
\* of an item that matches, and no close event for it
C30_Witness ==
  \E i, j \in Items :
    /\ Len(SearchEventsOf(events)) = 1
    /\ EventsOf(events, i) # <<>>
    /\ \A k \in 1..Len(EventsOf(events, i)) : EventsOf(events, i)[k].type = "cur-faq:open"
    /\ itemMatchesQuery(Cur, i, normalizeText(SearchEventsOf(events)[1].detail.query))
    /\ dataOpen[i] = "true" /\ dataOpenedBySearch[i]
    /\ j # i
    /\ \E k \in 1..Len(events) : events[k].type = "cur-faq:close" /\ events[k].target = j

\* ------------------------------------------------------------------------
\* C31
\* ------------------------------------------------------------------------

\* C31: after clearSearch() the match list is empty, the cursor is none and
\* the search-opened set is empty, from every reachable state
C31_SearchStateCleared ==
  [][\/ /\ marks' = <<>>
        /\ currentIndex' = -1
        /\ searchOpenedItems' = {}
     \/ ~ClearSearch]_vars

\* ------------------------------------------------------------------------
\* C32
\* ------------------------------------------------------------------------

\* C32: a search whose normalised query is empty removes every highlight
\* marker, empties the match list, sets the cursor to none and hides the empty
\* state; it changes no item's open marker, aria-expanded, active class or
\* opened-by-search tag, leaves the search-opened set as it was and sends no
\* event
C32_EmptyQuery ==
  [][\A q \in SearchQueries :
       \/ /\ QueryMarks([title |-> title', content |-> content']) = <<>>
          /\ marks' = <<>>
          /\ currentIndex' = -1
          /\ emptyDisplay' = "none"
          /\ dataOpen' = dataOpen
          /\ ariaExpanded' = ariaExpanded
          /\ activeClass' = activeClass
          /\ dataOpenedBySearch' = dataOpenedBySearch
          /\ searchOpenedItems' = searchOpenedItems
          /\ events' = <<>>
       \/ normalizeText(q) # <<>>
       \/ ~Search(q)]_vars

\* an item that a search opened is still open with its tag, while no
\* highlight is left, the match list is empty and the empty state is hidden
C32_Witness ==
  /\ \E i \in Items :
       /\ dataOpen[i] = "true"
       /\ dataOpenedBySearch[i]
       /\ i \in searchOpenedItems
  /\ QueryMarks(Cur) = <<>>
  /\ marks = <<>>
  /\ currentIndex = -1
  /\ emptyDisplay = "none"
  /\ events = <<>>

\* ------------------------------------------------------------------------
\* C33
\* ------------------------------------------------------------------------

\* the positions of the nodes of the titles and contents that satisfy Test
PositionsWhere(t, c, Test(_)) ==
  { pos \in [item : Items, part : {"title", "content"}, parent : 1..2, node : 1..3] :
      LET el == IF pos.part = "title" THEN t[pos.item] ELSE c[pos.item]
      IN  /\ pos.parent <= Len(el)
          /\ pos.node <= Len(el[pos.parent])
          /\ Test(el[pos.parent][pos.node]) }

IsMark(n) == n.mark
IsCurrent(n) == n.cur

\* the place of an item in the document
DocIndex(i) == CHOOSE k \in 1..Len(page.order) : page.order[k] = i

\* position a stands before position b in the document
Before(a, b) ==
  \/ DocIndex(a.item) < DocIndex(b.item)
  \/ /\ a.item = b.item
     /\ \/ a.part = "title" /\ b.part = "content"
        \/ /\ a.part = b.part
           /\ \/ a.parent < b.parent
              \/ a.parent = b.parent /\ a.node < b.node

\* C33: after a search that leaves at least one highlight marker, the match
\* list holds every marker once, in document order, the cursor is 0 and the
\* first marker is the only element with the current-highlight class
C33_MatchList ==
  [][\A q \in SearchQueries :
       \/ PositionsWhere(title', content', IsMark) = {}
       \/ /\ { marks'[k] : k \in 1..Len(marks') } = PositionsWhere(title', content', IsMark)
          /\ \A k, l \in 1..Len(marks') : k < l => Before(marks'[k], marks'[l])
          /\ currentIndex' = 0
          /\ PositionsWhere(title', content', IsCurrent) = {marks'[1]}
       \/ ~Search(q)]_vars

\* the match list holds a marker of a title and then a marker of a content,
\* the cursor is on the first
C33_Witness ==
  /\ Len(marks) >= 2
  /\ marks[1].part = "title"
  /\ marks[2].part = "content"
  /\ currentIndex = 0
  /\ PositionsWhere(title, content, IsCurrent) = {marks[1]}

\* ------------------------------------------------------------------------
\* C34
\* ------------------------------------------------------------------------

\* C34: between init and destroy, also while a transition is running,
\* isOpen(item) is true exactly when the item's data-faq-open is "true"
C34_ReadersAgree ==
  instance => \A i \in Items : isItemOpen(Cur, i) <=> dataOpen[i] = "true"

\* ------------------------------------------------------------------------
\* C35
\* ------------------------------------------------------------------------

\* C35: between init and destroy, for every item with trigger and content,
\* data-faq-open equals aria-expanded, the active class is present exactly
\* when data-faq-open is "true", an icon-open element is marked visible
\* exactly when the item is open and an icon-close element exactly when it is
\* closed
C35_IndicatorsAgree ==
  instance =>
    \A i \in Items :
      Complete(i) =>
        /\ dataOpen[i] \in {"true", "false"}
        /\ ariaExpanded[i] = dataOpen[i]
        /\ activeClass[i] <=> dataOpen[i] = "true"
        /\ HasIconOpen[i] => (iconOpen[i] = "visible" <=> dataOpen[i] = "true")
        /\ HasIconOpen[i] => (iconOpen[i] = "hidden" <=> dataOpen[i] = "false")
        /\ HasIconClose[i] => (iconClose[i] = "visible" <=> dataOpen[i] = "false")
        /\ HasIconClose[i] => (iconClose[i] = "hidden" <=> dataOpen[i] = "true")

\* the item with icons was opened by a search and shows every indicator of
\* an open item while its expand transition is running
C35_Witness ==
  /\ instance
  /\ dataOpen[1] = "true" /\ ariaExpanded[1] = "true" /\ activeClass[1]
  /\ iconOpen[1] = "visible" /\ iconClose[1] = "hidden"
  /\ trans[1] = "expand"
  /\ dataOpenedBySearch[1]

\* ------------------------------------------------------------------------
\* C36
\* ------------------------------------------------------------------------

\* C36: between init and destroy, an item carries
\* data-opened-by-search="true" exactly when it is in the search-opened set
C36_TagMatchesSet ==
  instance => \A i \in Items : dataOpenedBySearch[i] <=> i \in searchOpenedItems

\* ------------------------------------------------------------------------
\* C37
\* ------------------------------------------------------------------------

\* C37: in every reachable state the cursor is none exactly when the match
\* list is empty; otherwise it is an index of the match list, and the marker
\* at the cursor is the only element with the current-highlight class
C37_CursorConsistent ==
  /\ currentIndex = -1 <=> marks = <<>>
  /\ marks # <<>> =>
       /\ currentIndex \in 0..(Len(marks) - 1)
       /\ PositionsWhere(title, content, IsCurrent) = {marks[currentIndex + 1]}

\* the cursor stands on the last of several matches, which is the only
\* element with the current-highlight class
C37_Witness ==
  /\ Len(marks) >= 2
  /\ currentIndex = Len(marks) - 1
  /\ PositionsWhere(title, content, IsCurrent) = {marks[Len(marks)]}

\* ------------------------------------------------------------------------
\* C38
\* ------------------------------------------------------------------------

\* C38: in every reachable state every marker of the match list, the current
\* match included, lies in an item whose data-faq-open is "true"; stated here
\* for the items with trigger and content only, which are the items a search
\* can open
C38_MatchesInOpenItems ==
  \A k \in 1..Len(marks) :
    Complete(marks[k].item) => dataOpen[marks[k].item] = "true"

\* ------------------------------------------------------------------------
\* C39
\* ------------------------------------------------------------------------

\* the item is open and neither tagged as opened by search nor in the
\* search-opened set: the user opened it
OpenByUser(i) ==
  /\ dataOpen[i] = "true"
  /\ ~dataOpenedBySearch[i]
  /\ i \notin searchOpenedItems

\* C39: a search does not take over an item that the user opened: the item
\* stays open, untagged and outside the search-opened set, so that the
\* following clearSearch() or search leaves it open; clearSearch() and a
\* search close no item that the user opened
C39_UserStateKept ==
  [][\A i \in Items :
       \/ ~OpenByUser(i)
       \/ /\ \A q \in SearchQueries :
               \/ /\ dataOpen'[i] = "true"
                  /\ ~dataOpenedBySearch'[i]
                  /\ i \notin searchOpenedItems'
               \/ ~Search(q)
          /\ dataOpen'[i] = "true" \/ ~ClearSearch]_vars

\* ------------------------------------------------------------------------
\* C40
\* ------------------------------------------------------------------------

\* every height transition that was started on the content has delivered its
\* transitionend event
Settled(i) == trans[i] = "none"

\* C40: once every started height transition of an item with trigger and
\* content has completed, the content carries the hidden attribute exactly
\* when data-faq-open is "false"
C40_SteadyState ==
  instance =>
    \A i \in Items :
      (Complete(i) /\ Settled(i)) => (hidden[i] <=> dataOpen[i] = "false")
====
